---- MODULE Spec2Model ----
(***************************************************************************)
(* Two-tier cache (in-memory LRU over Firestore) and the week-data fetch   *)
(* orchestration built on it.                                              *)
(*                                                                         *)
(*   cacheService.js       src/unnamed/part_010, lines 512-865             *)
(*   weekDataService.js    src/unnamed/part_007                            *)
(*   firestoreClient.js    src/server/src/services/cache/firestoreClient.js*)
(*   server start          src/server/src/app.js, lines 66-90              *)
(*                                                                         *)
(* Every async function is cut at its awaits: the code between two awaits  *)
(* runs to completion on the single JavaScript thread and is one action.   *)
(* A Firestore call is two steps: the store serves (or fails) the request, *)
(* then the awaiting function resumes.  Time is in milliseconds, as in the *)
(* code; Date.now() and the LRU's clock are the one variable `now`.        *)
(***************************************************************************)
EXTENDS Integers, Sequences, FiniteSets, TLC

VARIABLES
    now,          \* Date.now() / performance.now(), ms
    l1,           \* memoryCache: entries, least recently used first
    l2,           \* Firestore documents (weeks and years collections): key -> doc
    fsConfigured, \* GCP_PROJECT_ID is set and new Firestore() did not throw
    stats,        \* l1Hits, l2Hits, misses, writes
    tasks,        \* the async calls in progress, one per caller
    budget,       \* operations started so far (bounds the run)
    ret,          \* the last call that returned: what it was and what it returned
    batch,        \* the generateWeeks call: phase, window, cached, uncached, weeks
    sub,          \* its per-week async callbacks: week number -> position and result
    lastSet,      \* history: the set that last touched the cache, if nothing came after
    invDone,      \* history: keys whose invalidate deleted and returned, no set since it began
    warm,         \* the warmCache call: phase, per-week callbacks, the logged summary
    listening     \* app.listen has bound the port: requests are served

vars == <<now, l1, l2, fsConfigured, stats, tasks, budget, ret, batch, sub, lastSet, invDone,
         warm, listening>>

----------------------------------------------------------------------------
(* Bounds of the model *)

MaxOps == 3
MaxRaceOps == 4
MaxTTLOps == 1
MaxWeek == 54
MaxCount == 2
MaxBatchOps == 1
MaxClearOps == 2
MaxWarm == 2
MaxBootOps == 1
MaxLRUOps == 3
MaxAgeOps == 2
MaxStatsOps == 1
MaxFlightOps == 2
MaxLookupOps == 3
MaxRestartOps == 2
MaxKindOps == 2
MaxBatchDeletes == 2

(* Program constants *)

Null == -1
L1Max == 10
BaseYear == 2025

Hour == 3600 * 1000
Day == 24 * Hour
L1DefaultTTL == 1000 * 60 * 60

\* The calendar year turns at this instant of the model's clock.
NewYearAt == 2 * Day

\* the instants at which something is observed
Times == {0, Hour - 1, Hour + 1, Day + 1}
Payloads == {1, 2}
Weeks == {0, 1}
Years == {BaseYear}
Callers == {1, 2}
Offsets == {0, 1}

----------------------------------------------------------------------------
(* Keys and records *)

WeekKey(w) == <<"week", w>>
\* (variant: the year's key formed with the week's prefix)
YearKeyAsWeek(y) == <<"week", y>>

YearKey(y) == <<"year", y>>
IsWeek(k) == k[1] = "week"

CurrentYear(t) == IF t < NewYearAt THEN BaseYear ELSE BaseYear + 1

\* (variant: the tier boundaries taken as strict)
getTTLStrict(weekNumber) ==
    IF weekNumber = 0 THEN 3600 * 1000
    ELSE IF weekNumber < 4 THEN 24 * 3600 * 1000
    ELSE IF weekNumber < 52 THEN 7 * 24 * 3600 * 1000
    ELSE Null

\* getTTL(weekNumber)
getTTL(weekNumber) ==
    IF weekNumber = 0 THEN 3600 * 1000
    ELSE IF weekNumber <= 4 THEN 24 * 3600 * 1000
    ELSE IF weekNumber <= 52 THEN 7 * 24 * 3600 * 1000
    ELSE Null

\* (variant: every year given the 24 hours)
yearTTLAlways(year, t) == 24 * 3600 * 1000

\* const ttl = year === currentYear ? 24 * 3600 * 1000 : null
yearTTL(year, t) == IF year = CurrentYear(t) THEN 24 * 3600 * 1000 ELSE Null

\* (variant: the expiry check left out)
isExpiredNever(cachedData, t) == FALSE

\* (variant: the check for a missing expiresAt left out)
isExpiredNoNullCheck(cachedData, t) == t > cachedData.expiresAt

\* isExpired(cachedData): no expiresAt never expires
isExpired(cachedData, t) ==
    IF cachedData.expiresAt = Null THEN FALSE ELSE t > cachedData.expiresAt

\* { ...data, cachedAt: Date.now(), expiresAt: ttl ? Date.now() + ttl : null }
CachedData(data, ttl, t) ==
    [data |-> data, cachedAt |-> t,
     expiresAt |-> IF ttl # Null THEN t + ttl ELSE Null]

----------------------------------------------------------------------------
(* L1: new LRUCache({ max: 10, ttl: 1 hour, updateAgeOnGet: true }) *)

L1Pos(c, k) ==
    IF \E i \in 1..Len(c) : c[i].key = k
    THEN CHOOSE i \in 1..Len(c) : c[i].key = k
    ELSE 0

\* an entry is stale once its age exceeds its ttl; no ttl, never stale
L1Stale(e, t) == e.ttl # Null /\ t - e.start > e.ttl

\* has(k): present and not stale; does not touch recency, does not purge
L1Has(c, k, t) == L1Pos(c, k) # 0 /\ ~L1Stale(c[L1Pos(c, k)], t)

L1Without(c, i) == SubSeq(c, 1, i - 1) \o SubSeq(c, i + 1, Len(c))

\* (variant: a read restarts the age and leaves the entry where it is)
L1TouchInPlace(c, k, t) ==
    [c EXCEPT ![L1Pos(c, k)].start = t]

\* get(k) of a present entry: the value; the entry becomes most recent and,
\* by updateAgeOnGet, its age restarts
L1Value(c, k) == c[L1Pos(c, k)].value

L1Touch(c, k, t) ==
    LET i == L1Pos(c, k)
    IN  Append(L1Without(c, i), [c[i] EXCEPT !.start = t])

\* (variant: no capacity)
L1SetUnbounded(c, k, v, ttl, t) ==
    LET e == [key |-> k, value |-> v, start |-> t, ttl |-> ttl]
        i == L1Pos(c, k)
    IN  IF i # 0 THEN Append(L1Without(c, i), e) ELSE Append(c, e)

\* set(k, v, { ttl }): overwrite in place or insert, evicting the least
\* recently used entry of a full cache; the entry becomes most recent
L1Set(c, k, v, ttl, t) ==
    LET e == [key |-> k, value |-> v, start |-> t, ttl |-> ttl]
        i == L1Pos(c, k)
    IN  IF i # 0 THEN Append(L1Without(c, i), e)
        ELSE IF Len(c) = L1Max THEN Append(Tail(c), e)
        ELSE Append(c, e)

\* delete(k)
L1Delete(c, k) == IF L1Pos(c, k) = 0 THEN c ELSE L1Without(c, L1Pos(c, k))

----------------------------------------------------------------------------
(* L2: one Firestore document per key *)

L2Has(k) == k \in DOMAIN l2
L2Put(s, k, doc) == [x \in DOMAIN s \cup {k} |-> IF x = k THEN doc ELSE s[x]]
\* (variant: a delete that empties the collection)
L2RemoveAll(s, k) == <<>>

\* doc(k).delete(): deleting a document that does not exist succeeds
L2Remove(s, k) == [x \in DOMAIN s \ {k} |-> s[x]]

----------------------------------------------------------------------------
(* Calls in progress *)

Idle == [op |-> "none", pc |-> "done", key |-> WeekKey(0), doc |-> <<>>, clean |-> TRUE]

\* a call starts in the lowest free slot (the slots are interchangeable)
Free(t) ==
    /\ tasks[t].pc = "done"
    /\ \A u \in Callers : u < t => tasks[u].pc # "done"

Call(op, k, pc, doc) == [op |-> op, pc |-> pc, key |-> k, doc |-> doc, clean |-> TRUE]

Return(op, k, res, path) == [op |-> op, key |-> k, res |-> res, path |-> path]

Bump(st, field) == [st EXCEPT ![field] = @ + 1]

SetInFlight(k) ==
    \/ \E t \in Callers : tasks[t].op = "set" /\ tasks[t].pc # "done" /\ tasks[t].key = k
    \/ \E t \in Callers : tasks[t].pc = "gwd_set" /\ tasks[t].key = k
    \/ \E w \in DOMAIN sub : sub[w].pc = "set_await" /\ WeekKey(w) = k
    \/ \E w \in DOMAIN warm.cb : warm.cb[w].pc = "set_await" /\ WeekKey(w) = k

\* no warmCache call in progress
NoWarm == [phase |-> "idle", cb |-> <<>>, successful |-> 0, failed |-> 0]

NoBatch ==
    [phase |-> "idle", window |-> <<>>, cached |-> <<>>, uncached |-> <<>>,
     pos |-> 0, weeks |-> <<>>]

----------------------------------------------------------------------------
(* getWeekFromCache / getYearFromCache *)

\* the ttl the promotion passes to memoryCache.set: none given for a week
\* (the cache's default applies), the year's own for a year
promoteTTL(k, t) == IF IsWeek(k) THEN L1DefaultTTL ELSE yearTTL(k[2], t)

\* The code up to the first await, on cache c and counters st: an L1 hit, the
\* tier-disabled miss, or the Firestore read issued ("await").
LookupSync(c, st, k) ==
    IF L1Has(c, k, now)
    THEN [path |-> "l1hit", res |-> <<L1Value(c, k)>>,
          l1 |-> L1Touch(c, k, now), stats |-> Bump(st, "l1Hits")]
    ELSE IF ~fsConfigured
    THEN [path |-> "disabled", res |-> <<>>, l1 |-> c, stats |-> Bump(st, "misses")]
    ELSE [path |-> "await", res |-> <<>>, l1 |-> c, stats |-> st]

\* (variant: the L2 hit returned without promotion)
LookupResumeNoPromote(c, st, k, threw, doc) ==
    IF threw
    THEN [path |-> "error", res |-> <<>>, l1 |-> c, stats |-> Bump(st, "misses")]
    ELSE IF doc # <<>> /\ isExpired(doc[1], now)
    THEN [path |-> "expired", res |-> <<>>, l1 |-> c, stats |-> Bump(st, "misses")]
    ELSE IF doc # <<>>
    THEN [path |-> "l2hit", res |-> doc, l1 |-> c, stats |-> Bump(st, "l2Hits")]
    ELSE [path |-> "miss", res |-> <<>>, l1 |-> c, stats |-> Bump(st, "misses")]

\* (variant: the rejection of the Firestore read not caught)
LookupResumeUncaught(c, st, k, threw, doc) ==
    IF threw
    THEN [path |-> "raised", res |-> <<>>, l1 |-> c, stats |-> st]
    ELSE IF doc # <<>> /\ isExpired(doc[1], now)
    THEN [path |-> "expired", res |-> <<>>, l1 |-> c, stats |-> Bump(st, "misses")]
    ELSE IF doc # <<>>
    THEN [path |-> "l2hit", res |-> doc,
          l1 |-> L1Set(c, k, doc[1], promoteTTL(k, now), now),
          stats |-> Bump(st, "l2Hits")]
    ELSE [path |-> "miss", res |-> <<>>, l1 |-> c, stats |-> Bump(st, "misses")]

\* The code after the await: the catch block, the expiry check, the L2 hit
\* with its promotion, or the miss.
LookupResume(c, st, k, threw, doc) ==
    IF threw
    THEN [path |-> "error", res |-> <<>>, l1 |-> c, stats |-> Bump(st, "misses")]
    ELSE IF doc # <<>> /\ isExpired(doc[1], now)
    THEN [path |-> "expired", res |-> <<>>, l1 |-> c, stats |-> Bump(st, "misses")]
    ELSE IF doc # <<>>
    THEN [path |-> "l2hit", res |-> doc,
          l1 |-> L1Set(c, k, doc[1], promoteTTL(k, now), now),
          stats |-> Bump(st, "l2Hits")]
    ELSE [path |-> "miss", res |-> <<>>, l1 |-> c, stats |-> Bump(st, "misses")]

\* what docRef.get() resolves to
Snapshot(k) == IF L2Has(k) THEN <<l2[k]>> ELSE <<>>

GetStart(t, k) ==
    LET o == LookupSync(l1, stats, k)
    IN
    /\ Free(t)
    /\ budget' = budget + 1
    /\ lastSet' = <<>>
    /\ l1' = o.l1
    /\ stats' = o.stats
    /\ IF o.path = "await"
       THEN /\ tasks' = [tasks EXCEPT ![t] = Call("get", k, "get_await", <<>>)]
            /\ ret' = ret
       ELSE /\ tasks' = tasks
            /\ ret' = Return("get", k, o.res, o.path)
    /\ UNCHANGED <<now, l2, fsConfigured, warm, listening, invDone, batch, sub>>

\* Firestore serves docRef.get(): the snapshot, or a rejection
GetRead(t) ==
    /\ tasks[t].pc = "get_await"
    /\ \/ tasks' = [tasks EXCEPT ![t].pc = "get_resume", ![t].doc = Snapshot(tasks[t].key)]
       \/ tasks' = [tasks EXCEPT ![t].pc = "get_throw"]
    /\ UNCHANGED <<now, l1, l2, fsConfigured, warm, listening, stats, budget, ret, lastSet, invDone, batch, sub>>

\* (variant: a document found expired is deleted at read time)
L2AfterGetSweeps(s, k, path) == IF path = "expired" THEN L2Remove(s, k) ELSE s

\* Firestore after the get has resumed, whatever its path: the functions
\* issue no set and no delete
L2AfterGet(s, k, path) == s

GetResume(t) ==
    LET k == tasks[t].key
        o == LookupResume(l1, stats, k, tasks[t].pc = "get_throw", tasks[t].doc)
    IN
    /\ tasks[t].pc \in {"get_resume", "get_throw"}
    /\ lastSet' = <<>>
    /\ tasks' = [tasks EXCEPT ![t] = Idle]
    /\ l1' = o.l1
    /\ l2' = L2AfterGet(l2, k, o.path)
    /\ stats' = o.stats
    /\ ret' = Return("get", k, o.res, o.path)
    /\ UNCHANGED <<now, fsConfigured, warm, listening, budget, invDone, batch, sub>>

----------------------------------------------------------------------------
(* setWeekInCache / setYearInCache *)

setTTL(k, t) == IF IsWeek(k) THEN getTTL(k[2]) ELSE yearTTL(k[2], t)

\* the record the call stamps
Stamped(k, data) == CachedData(data, setTTL(k, now), now)

\* (variant: the L1 write left out)
StoreL1Skipped(c, k, data) == c

\* memoryCache.set(cacheKey, cachedData, { ttl })
StoreL1(c, k, data) == L1Set(c, k, Stamped(k, data), setTTL(k, now), now)

\* (variant: the write counted whatever its outcome)
AfterWriteAlways(st, ok) == Bump(st, "writes")

\* the counters after the awaited Firestore write came back
AfterWrite(st, ok) == IF ok THEN Bump(st, "writes") ELSE st

\* the counters of a call that found Firestore not configured
AfterNoWrite(st) == st

\* (variant: the failed write issued again)
SetCatchRetry(task) == task

\* catch (error) { console.error(...) }: the call is over, nothing is reissued
SetCatch(task) == Idle

\* up to the await: stamp the record, write L1, issue the Firestore write
SetStart(t, k, data) ==
    /\ Free(t)
    /\ budget' = budget + 1
    /\ l1' = StoreL1(l1, k, data)
    /\ lastSet' = <<[key |-> k, data |-> data, value |-> Stamped(k, data)]>>
    /\ invDone' = invDone \ {k}
    /\ IF fsConfigured
       THEN /\ tasks' = [u \in Callers |->
                   IF u = t THEN Call("set", k, "set_await", <<Stamped(k, data)>>)
                   ELSE IF tasks[u].op = "inv" /\ tasks[u].key = k
                   THEN [tasks[u] EXCEPT !.clean = FALSE]
                   ELSE tasks[u]]
            /\ ret' = ret
            /\ stats' = stats
       ELSE /\ tasks' = tasks
            /\ ret' = Return("set", k, <<>>, "disabled")
            /\ stats' = AfterNoWrite(stats)
    /\ UNCHANGED <<now, l2, fsConfigured, warm, listening, batch, sub>>

\* Firestore serves doc(cacheKey).set(cachedData), stored or rejected, and the
\* function resumes: stats.writes++ after a write that succeeded, the catch
\* block after one that failed
SetWrite(t) ==
    /\ tasks[t].pc = "set_await"
    /\ \/ /\ tasks' = [tasks EXCEPT ![t] = Idle]
          /\ l2' = L2Put(l2, tasks[t].key, tasks[t].doc[1])
          /\ stats' = AfterWrite(stats, TRUE)
          /\ ret' = Return("set", tasks[t].key, <<>>, "written")
       \/ /\ tasks' = [tasks EXCEPT ![t] = SetCatch(tasks[t])]
          /\ l2' = l2
          /\ stats' = AfterWrite(stats, FALSE)
          /\ ret' = Return("set", tasks[t].key, <<>>, "error")
    /\ UNCHANGED <<now, l1, fsConfigured, warm, listening, budget, lastSet, invDone, batch, sub>>

----------------------------------------------------------------------------
(* invalidateWeek *)

\* up to the await: L1 delete, Firestore delete issued
InvStart(t, k) ==
    /\ Free(t)
    /\ budget' = budget + 1
    /\ l1' = L1Delete(l1, k)
    /\ lastSet' = <<>>
    /\ IF fsConfigured
       THEN /\ tasks' = [tasks EXCEPT ![t] =
                   [Call("inv", k, "inv_await", <<>>) EXCEPT !.clean = ~SetInFlight(k)]]
            /\ invDone' = invDone \ {k}
            /\ ret' = ret
       ELSE /\ tasks' = tasks
            /\ invDone' = IF SetInFlight(k) THEN invDone \ {k} ELSE invDone \cup {k}
            /\ ret' = Return("inv", k, <<>>, "disabled")
    /\ UNCHANGED <<now, l2, fsConfigured, warm, listening, stats, batch, sub>>

\* Firestore serves doc(cacheKey).delete(), deleted or rejected, and the
\* function resumes (it only logs)
InvDelete(t) ==
    /\ tasks[t].pc = "inv_await"
    /\ tasks' = [tasks EXCEPT ![t] = Idle]
    /\ \/ /\ l2' = L2Remove(l2, tasks[t].key)
          /\ ret' = Return("inv", tasks[t].key, <<>>, "deleted")
          /\ invDone' = IF tasks[t].clean THEN invDone \cup {tasks[t].key} ELSE invDone
       \/ /\ l2' = l2
          /\ ret' = Return("inv", tasks[t].key, <<>>, "error")
          /\ invDone' = invDone
    /\ UNCHANGED <<now, l1, fsConfigured, warm, listening, stats, budget, lastSet, batch, sub>>

----------------------------------------------------------------------------
(* clearAllCache *)

\* what weeksCollection.get() resolves to: the documents of the weeks
\* collection (the years collection is another one)
WeeksSnapshot == {k \in DOMAIN l2 : IsWeek(k)}

\* batch.delete(doc.ref) for every document of the snapshot, one commit
RECURSIVE BatchDelete(_, _)
BatchDelete(s, ks) ==
    IF ks = {} THEN s
    ELSE LET k == CHOOSE x \in ks : TRUE
         IN  BatchDelete(L2Remove(s, k), ks \ {k})

\* (variant: clearing the cache also clears its statistics)
AfterClearResets(st) == [l1Hits |-> 0, l2Hits |-> 0, misses |-> 0, writes |-> 0]

\* the counters after memoryCache.clear(): clearAllCache never touches them
AfterClear(st) == st

\* up to the first await: memoryCache.clear(), the collection read issued
ClearStart(t) ==
    /\ Free(t)
    /\ budget' = budget + 1
    /\ l1' = <<>>
    /\ stats' = AfterClear(stats)
    /\ lastSet' = <<>>
    /\ IF fsConfigured
       THEN /\ tasks' = [tasks EXCEPT ![t] = Call("clear", WeekKey(0), "clear_read", <<>>)]
            /\ ret' = ret
       ELSE /\ tasks' = tasks
            /\ ret' = Return("clear", WeekKey(0), <<>>, "disabled")
    /\ UNCHANGED <<now, l2, fsConfigured, warm, listening, invDone, batch, sub>>

\* Firestore serves weeksCollection.get(): the snapshot, from which the batch
\* is built and its commit issued, or a rejection, which the catch block logs
ClearRead(t) ==
    /\ tasks[t].pc = "clear_read"
    /\ \/ /\ tasks' = [tasks EXCEPT ![t].pc = "clear_commit", ![t].doc = <<WeeksSnapshot>>]
          /\ ret' = ret
       \/ /\ tasks' = [tasks EXCEPT ![t] = Idle]
          /\ ret' = Return("clear", WeekKey(0), <<>>, "error")
    /\ UNCHANGED <<now, l1, l2, fsConfigured, warm, listening, stats, budget, lastSet,
                   invDone, batch, sub>>

\* Firestore serves batch.commit(): every delete of the batch applied, or none
\* and a rejection, which the catch block logs
ClearCommit(t) ==
    /\ tasks[t].pc = "clear_commit"
    /\ tasks' = [tasks EXCEPT ![t] = Idle]
    /\ \/ /\ l2' = BatchDelete(l2, tasks[t].doc[1] \cap DOMAIN l2)
          /\ ret' = Return("clear", WeekKey(0), <<>>, "cleared")
       \/ /\ l2' = l2
          /\ ret' = Return("clear", WeekKey(0), <<>>, "error")
    /\ UNCHANGED <<now, l1, fsConfigured, warm, listening, stats, budget, lastSet,
                   invDone, batch, sub>>

----------------------------------------------------------------------------
(* getCacheStats / resetCacheStats *)

\* (variant: reading the size purges the stale entries)
L1AfterSizePurging(c) == SelectSeq(c, LAMBDA e : ~L1Stale(e, now))

\* memoryCache.size is a plain read: the cache after it
L1AfterSize(c) == c

\* ((l1Hits + l2Hits) / total) * 100 to two decimals, in hundredths of a
\* percent; 0 when nothing was looked up
HitRate(st) ==
    LET total == st.l1Hits + st.l2Hits + st.misses
    IN  IF total > 0
        THEN (2 * 10000 * (st.l1Hits + st.l2Hits) + total) \div (2 * total)
        ELSE 0

\* { ...stats, total, hitRate, l1Size: memoryCache.size }
StatsView(st, c) ==
    [l1Hits |-> st.l1Hits, l2Hits |-> st.l2Hits, misses |-> st.misses,
     writes |-> st.writes,
     total |-> st.l1Hits + st.l2Hits + st.misses,
     hitRate |-> HitRate(st),
     l1Size |-> Len(c)]

\* getCacheStats(): synchronous, whatever else is in progress
GetStats ==
    /\ budget' = budget + 1
    /\ ret' = Return("stats", WeekKey(0), <<StatsView(stats, l1)>>, "stats")
    /\ l1' = L1AfterSize(l1)
    /\ UNCHANGED <<now, l2, fsConfigured, warm, listening, stats, tasks, lastSet,
                   invDone, batch, sub>>

\* resetCacheStats(): the four counters back to zero
ResetStats ==
    /\ budget' = budget + 1
    /\ stats' = [l1Hits |-> 0, l2Hits |-> 0, misses |-> 0, writes |-> 0]
    /\ ret' = Return("reset", WeekKey(0), <<>>, "reset")
    /\ UNCHANGED <<now, l1, l2, fsConfigured, warm, listening, tasks, lastSet,
                   invDone, batch, sub>>

----------------------------------------------------------------------------
(* The clock *)

Tick(to) ==
    /\ to > now
    /\ now' = to
    /\ UNCHANGED <<l1, l2, fsConfigured, warm, listening, stats, tasks, budget, ret, lastSet, invDone, batch, sub>>

----------------------------------------------------------------------------
(* weekDataService.js: generateWeeks, checkCacheStatus, generateWeekData *)
(*                                                                         *)
(* generateWeeks and its callbacks run on the one thread: whatever follows *)
(* a promise that is already resolved runs before any other event, so one  *)
(* action carries the call forward until every callback waits on Firestore *)
(* or on the providers.  B packs what such a run reads and writes.         *)

Pack == [l1 |-> l1, stats |-> stats, b |-> batch, sub |-> sub]

NoSub == [pc |-> "none", doc |-> <<>>, res |-> <<>>, produced |-> FALSE]

\* what the providers return for a week (Promise.all of the four services)
Produced(w) == 2

\* what generateWeekData returns for week w with payload data
WeekResult(w, data) == <<[weekNumber |-> w, data |-> data]>>

Pending(B) == {w \in DOMAIN B.sub : B.sub[w].pc \notin {"none", "done"}}

RECURSIVE SortedInsert(_, _)
SortedInsert(x, s) ==
    IF s = <<>> THEN <<x>>
    ELSE IF x.weekNumber - Head(s).weekNumber < 0 THEN <<x>> \o s
    ELSE <<Head(s)>> \o SortedInsert(x, Tail(s))

\* (variant: the result left in completion order)
SortWeeksNone(s) == s

\* weeks.sort((a, b) => a.weekNumber - b.weekNumber)
RECURSIVE SortWeeks(_)
SortWeeks(s) == IF s = <<>> THEN <<>> ELSE SortedInsert(Head(s), SortWeeks(Tail(s)))

\* generateWeekData(w) up to its first wait: the cached record, the Firestore
\* read issued, or (tier disabled) the miss and the provider calls issued
gwdSync(B, w) ==
    LET o == LookupSync(B.l1, B.stats, WeekKey(w))
    IN  [B EXCEPT
            !.l1 = o.l1,
            !.stats = o.stats,
            !.sub[w] =
                IF o.path = "l1hit"
                THEN [NoSub EXCEPT !.pc = "done", !.res = WeekResult(w, o.res[1].data)]
                ELSE IF o.path = "disabled"
                THEN [NoSub EXCEPT !.pc = "produce", !.produced = TRUE]
                ELSE [NoSub EXCEPT !.pc = "get_await"]]

RECURSIVE gwdSyncAll(_, _)
gwdSyncAll(B, ws) ==
    IF ws = <<>> THEN B ELSE gwdSyncAll(gwdSync(B, Head(ws)), Tail(ws))

RECURSIVE Results(_, _)
Results(B, ws) ==
    IF ws = <<>> THEN <<>> ELSE B.sub[Head(ws)].res \o Results(B, Tail(ws))

\* (variant: the uncached weeks all started at once)
RECURSIVE StartUncachedAtOnce(_, _)
StartUncachedAtOnce(B, i) ==
    IF B.b.uncached = <<>> \/ i > 1
    THEN [B EXCEPT !.b.phase = "done", !.b.pos = 0, !.b.weeks = SortWeeks(B.b.weeks)]
    ELSE gwdSyncAll([B EXCEPT !.b.phase = "uncached", !.b.pos = i], B.b.uncached)

\* for (const weekNum of uncached): from the i-th uncached week on, one
\* generateWeekData at a time; after the last, the sort and the return
RECURSIVE StartUncached(_, _)
StartUncached(B, i) ==
    IF i > Len(B.b.uncached)
    THEN [B EXCEPT !.b.phase = "done", !.b.pos = 0, !.b.weeks = SortWeeks(B.b.weeks)]
    ELSE LET w == B.b.uncached[i]
             B1 == gwdSync([B EXCEPT !.b.phase = "uncached", !.b.pos = i], w)
         IN  IF B1.sub[w].pc = "done"
             THEN StartUncached([B1 EXCEPT !.b.weeks = @ \o B1.sub[w].res], i + 1)
             ELSE B1

\* Promise.all over the cached weeks has settled: push the results that are
\* not null, go on to the uncached weeks
AfterCached(B) ==
    IF \E w \in Pending(B) : TRUE THEN B
    ELSE StartUncached([B EXCEPT !.b.weeks = @ \o Results(B, B.b.cached)], 1)

\* cached.map(async ...): every cached week's generateWeekData started
StartCached(B) ==
    AfterCached(gwdSyncAll(
        [B EXCEPT !.b.phase = "cached",
                  !.sub = [w \in DOMAIN B.sub |-> NoSub]],
        B.b.cached))

\* the probe of checkCacheStatus up to its first wait, week by week
RECURSIVE ProbeSyncAll(_, _)
ProbeSyncAll(B, ws) ==
    IF ws = <<>> THEN B
    ELSE LET w == Head(ws)
             o == LookupSync(B.l1, B.stats, WeekKey(w))
             B1 == [B EXCEPT
                      !.l1 = o.l1,
                      !.stats = o.stats,
                      !.b.cached = IF o.path = "l1hit" THEN Append(@, w) ELSE @,
                      !.b.uncached = IF o.path = "disabled" THEN Append(@, w) ELSE @,
                      !.sub[w] = IF o.path = "await"
                                 THEN [NoSub EXCEPT !.pc = "get_await"]
                                 ELSE [NoSub EXCEPT !.pc = "done"]]
         IN  ProbeSyncAll(B1, Tail(ws))

\* (variant: the probes not awaited)
AfterProbeEarly(B) == StartCached(B)

\* Promise.all of the probes has settled: on to the cached weeks
AfterProbe(B) == IF \E w \in Pending(B) : TRUE THEN B ELSE StartCached(B)

\* (variant: the call does not go on after a callback)
AfterSubStalls(B, w) == B

\* a callback of the batch is done: what the batch does next
AfterSub(B, w) ==
    IF B.b.phase = "cached" THEN AfterCached(B)
    ELSE StartUncached([B EXCEPT !.b.weeks = @ \o B.sub[w].res], B.b.pos + 1)

\* (variant: the failure of one week ends the whole call)
AfterFailAborts(B, w) ==
    [B EXCEPT !.b.phase = "raised", !.b.weeks = <<>>,
              !.sub = [v \in DOMAIN @ |-> [@[v] EXCEPT !.pc = "done"]]]

\* the catch blocks of generateWeeks: the week yields nothing (null in the
\* cached phase, no push in the uncached loop) and the batch goes on
AfterFail(B, w) ==
    AfterSub([B EXCEPT !.sub[w].pc = "done", !.sub[w].res = <<>>], w)

Install(B) ==
    /\ l1' = B.l1
    /\ stats' = B.stats
    /\ batch' = B.b
    /\ sub' = B.sub

\* generateWeeks(count, offset) up to its first wait
BatchStart(count, offset) ==
    LET window == [i \in 1..count |-> offset + i - 1]
        B0 == [Pack EXCEPT
                  !.b = [NoBatch EXCEPT !.phase = "probe", !.window = window],
                  !.sub = [w \in {window[i] : i \in 1..count} |-> NoSub]]
    IN
    /\ batch.phase = "idle"
    /\ Install(AfterProbe(ProbeSyncAll(B0, window)))
    /\ lastSet' = <<>>
    /\ UNCHANGED <<now, l2, fsConfigured, warm, listening, tasks, budget, ret, invDone>>

\* Firestore serves a callback's docRef.get(): the snapshot, or a rejection
SubRead(w) ==
    /\ sub[w].pc = "get_await"
    /\ \/ sub' = [sub EXCEPT ![w].pc = "get_resume", ![w].doc = Snapshot(WeekKey(w))]
       \/ sub' = [sub EXCEPT ![w].pc = "get_throw"]
    /\ UNCHANGED <<now, l1, l2, fsConfigured, warm, listening, stats, tasks, budget, ret, batch,
                   lastSet, invDone>>

\* getWeekFromCache resumes in a callback: the probe classifies the week;
\* generateWeekData returns the record or, on a miss, calls the providers
SubResume(w) ==
    LET o == LookupResume(l1, stats, WeekKey(w), sub[w].pc = "get_throw", sub[w].doc)
        B0 == [Pack EXCEPT !.l1 = o.l1, !.stats = o.stats]
    IN
    /\ sub[w].pc \in {"get_resume", "get_throw"}
    /\ IF batch.phase = "probe"
       THEN Install(AfterProbe(
                [B0 EXCEPT
                    !.b.cached = IF o.res # <<>> THEN Append(@, w) ELSE @,
                    !.b.uncached = IF o.res = <<>> THEN Append(@, w) ELSE @,
                    !.sub[w] = [NoSub EXCEPT !.pc = "done"]]))
       ELSE IF o.res # <<>>
       THEN Install(AfterSub(
                [B0 EXCEPT !.sub[w] =
                    [NoSub EXCEPT !.pc = "done", !.res = WeekResult(w, o.res[1].data)]],
                w))
       ELSE Install([B0 EXCEPT !.sub[w] =
                [NoSub EXCEPT !.pc = "produce", !.produced = TRUE]])
    /\ lastSet' = <<>>
    /\ UNCHANGED <<now, l2, fsConfigured, warm, listening, tasks, budget, ret, invDone>>

\* the providers answer: the week is assembled and setWeekInCache runs up to
\* its await
ProduceOk(w) ==
    LET k == WeekKey(w)
        B0 == [Pack EXCEPT !.l1 = StoreL1(l1, k, Produced(w))]
    IN
    /\ sub[w].pc = "produce"
    /\ IF fsConfigured
       THEN Install([B0 EXCEPT !.sub[w].pc = "set_await",
                               !.sub[w].doc = <<Stamped(k, Produced(w))>>])
       ELSE Install(AfterSub(
                [B0 EXCEPT !.stats = AfterNoWrite(@),
                           !.sub[w].pc = "done",
                           !.sub[w].res = WeekResult(w, Produced(w))],
                w))
    /\ lastSet' = <<>>
    /\ invDone' = invDone \ {k}
    /\ tasks' = [u \in Callers |->
                   IF tasks[u].op = "inv" /\ tasks[u].key = k
                   THEN [tasks[u] EXCEPT !.clean = FALSE]
                   ELSE tasks[u]]
    /\ UNCHANGED <<now, l2, fsConfigured, warm, listening, budget, ret>>

\* a provider call fails: generateWeekData throws, generateWeeks catches
ProduceFail(w) ==
    /\ sub[w].pc = "produce"
    /\ Install(AfterFail(Pack, w))
    /\ UNCHANGED <<now, l2, fsConfigured, warm, listening, tasks, budget, ret, lastSet, invDone>>

\* Firestore serves the callback's write, stored or rejected; setWeekInCache
\* and generateWeekData return
SubWrite(w) ==
    /\ sub[w].pc = "set_await"
    /\ \E ok \in BOOLEAN :
          /\ l2' = IF ok THEN L2Put(l2, WeekKey(w), sub[w].doc[1]) ELSE l2
          /\ Install(AfterSub(
                 [Pack EXCEPT !.stats = AfterWrite(@, ok),
                              !.sub[w].pc = "done",
                              !.sub[w].doc = <<>>,
                              !.sub[w].res = WeekResult(w, Produced(w))],
                 w))
    /\ UNCHANGED <<now, fsConfigured, warm, listening, tasks, budget, ret, lastSet, invDone>>

----------------------------------------------------------------------------
(* generateWeekData called on its own (GET /weeks/:weekNumber) *)

\* up to the first wait: the cached record returned, the Firestore read
\* issued, or (tier disabled) the miss and the providers called
GwdStart(t, w) ==
    LET k == WeekKey(w)
        o == LookupSync(l1, stats, k)
    IN
    /\ Free(t)
    /\ budget' = budget + 1
    /\ lastSet' = <<>>
    /\ l1' = o.l1
    /\ stats' = o.stats
    /\ IF o.path = "l1hit"
       THEN /\ tasks' = tasks
            /\ ret' = Return("gwd", k, o.res, "cached")
       ELSE /\ tasks' = [tasks EXCEPT ![t] =
                   Call("gwd", k, IF o.path = "disabled" THEN "produce" ELSE "gwd_await", <<>>)]
            /\ ret' = ret
    /\ UNCHANGED <<now, l2, fsConfigured, warm, listening, invDone, batch, sub>>

\* Firestore serves docRef.get(): the snapshot, or a rejection
GwdRead(t) ==
    /\ tasks[t].pc = "gwd_await"
    /\ \/ tasks' = [tasks EXCEPT ![t].pc = "gwd_resume", ![t].doc = Snapshot(tasks[t].key)]
       \/ tasks' = [tasks EXCEPT ![t].pc = "gwd_throw"]
    /\ UNCHANGED <<now, l1, l2, fsConfigured, warm, listening, stats, budget, ret, lastSet,
                   invDone, batch, sub>>

\* getWeekFromCache resumes: the record is returned or the providers called
GwdResume(t) ==
    LET k == tasks[t].key
        o == LookupResume(l1, stats, k, tasks[t].pc = "gwd_throw", tasks[t].doc)
    IN
    /\ tasks[t].pc \in {"gwd_resume", "gwd_throw"}
    /\ lastSet' = <<>>
    /\ l1' = o.l1
    /\ stats' = o.stats
    /\ IF o.res # <<>>
       THEN /\ tasks' = [tasks EXCEPT ![t] = Idle]
            /\ ret' = Return("gwd", k, o.res, "cached")
       ELSE /\ tasks' = [tasks EXCEPT ![t].pc = "produce", ![t].doc = <<>>]
            /\ ret' = ret
    /\ UNCHANGED <<now, l2, fsConfigured, warm, listening, budget, invDone, batch, sub>>

\* the providers answer: the week is assembled and setWeekInCache runs up to
\* its await
GwdProduceOk(t) ==
    LET k == tasks[t].key
        w == k[2]
    IN
    /\ tasks[t].pc = "produce"
    /\ l1' = StoreL1(l1, k, Produced(w))
    /\ lastSet' = <<>>
    /\ invDone' = invDone \ {k}
    /\ IF fsConfigured
       THEN /\ tasks' = [u \in Callers |->
                   IF u = t
                   THEN [tasks[t] EXCEPT !.pc = "gwd_set", !.doc = <<Stamped(k, Produced(w))>>]
                   ELSE IF tasks[u].op = "inv" /\ tasks[u].key = k
                   THEN [tasks[u] EXCEPT !.clean = FALSE]
                   ELSE tasks[u]]
            /\ ret' = ret
            /\ stats' = stats
       ELSE /\ tasks' = [tasks EXCEPT ![t] = Idle]
            /\ ret' = Return("gwd", k, WeekResult(w, Produced(w)), "produced")
            /\ stats' = AfterNoWrite(stats)
    /\ UNCHANGED <<now, l2, fsConfigured, warm, listening, budget, batch, sub>>

\* a provider call fails: generateWeekData throws
GwdProduceFail(t) ==
    /\ tasks[t].pc = "produce"
    /\ tasks' = [tasks EXCEPT ![t] = Idle]
    /\ ret' = Return("gwd", tasks[t].key, <<>>, "raised")
    /\ UNCHANGED <<now, l1, l2, fsConfigured, warm, listening, stats, budget, lastSet,
                   invDone, batch, sub>>

\* Firestore serves the write, stored or rejected; setWeekInCache returns
\* and generateWeekData returns the week
GwdWrite(t) ==
    /\ tasks[t].pc = "gwd_set"
    /\ tasks' = [tasks EXCEPT ![t] = Idle]
    /\ ret' = Return("gwd", tasks[t].key, WeekResult(tasks[t].key[2], tasks[t].doc[1].data),
                     "produced")
    /\ \E ok \in BOOLEAN :
          /\ l2' = IF ok THEN L2Put(l2, tasks[t].key, tasks[t].doc[1]) ELSE l2
          /\ stats' = AfterWrite(stats, ok)
    /\ UNCHANGED <<now, l1, fsConfigured, warm, listening, budget, lastSet, invDone, batch, sub>>

----------------------------------------------------------------------------
(* warmCache, and the start of the server that calls it (app.js) *)
(*                                                                         *)
(* fetchWeekFn is the caller's: for the cache it is a call that resolves   *)
(* with the week's data or rejects.  As in generateWeeks, one action runs  *)
(* the callbacks as far as they go without waiting.                        *)

WPack == [l1 |-> l1, stats |-> stats, wm |-> warm]

\* the callback of one week: where it is, the document its read found, what
\* it returned, how often it called fetchWeekFn and setWeekInCache
NoCb == [pc |-> "none", doc |-> <<>>, status |-> "none", fetches |-> 0, sets |-> 0]

\* how Promise.allSettled reports a callback: each branch of the callback,
\* the catch block included, returns an object
Settled(c) == IF c.status \in {"cached", "warmed", "error"} THEN "fulfilled" ELSE "rejected"

\* after Promise.allSettled: the two counts that are logged
WarmSettle(P) ==
    IF \E w \in DOMAIN P.wm.cb : P.wm.cb[w].pc # "done" THEN P
    ELSE [P EXCEPT
            !.wm.phase = "done",
            !.wm.successful =
                Cardinality({w \in DOMAIN P.wm.cb : Settled(P.wm.cb[w]) = "fulfilled"}),
            !.wm.failed =
                Cardinality({w \in DOMAIN P.wm.cb : Settled(P.wm.cb[w]) = "rejected"})]

\* (variant: a failure in a callback rejects the whole call)
WarmCatchNone(P, w) ==
    [P EXCEPT !.wm.phase = "rejected",
              !.wm.cb = [v \in DOMAIN @ |-> [@[v] EXCEPT !.pc = "done"]]]

\* catch (error) { ...; return { weekNumber, status: 'error', ... } }
WarmCatch(P, w) ==
    [P EXCEPT !.wm.cb[w].pc = "done", !.wm.cb[w].status = "error"]

\* (variant: fetchWeekFn called whatever the cache returned)
WarmGotFetchesAnyway(P, w, res) ==
    [P EXCEPT !.wm.cb[w].pc = "fetch", !.wm.cb[w].fetches = @ + 1]

\* if (cached) return { status: 'cached' }; else fetchWeekFn(weekNumber) is called
WarmGot(P, w, res) ==
    IF res # <<>>
    THEN [P EXCEPT !.wm.cb[w].pc = "done", !.wm.cb[w].status = "cached"]
    ELSE [P EXCEPT !.wm.cb[w].pc = "fetch", !.wm.cb[w].fetches = @ + 1]

\* a callback up to its first wait
WarmCb(P, w) ==
    LET o == LookupSync(P.l1, P.stats, WeekKey(w))
        P1 == [P EXCEPT !.l1 = o.l1, !.stats = o.stats]
    IN  IF o.path = "await"
        THEN [P1 EXCEPT !.wm.cb[w].pc = "get_await"]
        ELSE WarmGot(P1, w, o.res)

RECURSIVE WarmCbAll(_, _)
WarmCbAll(P, ws) ==
    IF ws = <<>> THEN P ELSE WarmCbAll(WarmCb(P, Head(ws)), Tail(ws))

WarmInstall(P) ==
    /\ l1' = P.l1
    /\ stats' = P.stats
    /\ warm' = P.wm

\* warmCache(fetchWeekFn, weekNumbers) up to its first wait
WarmStarted(weekNumbers) ==
    LET P0 == [WPack EXCEPT
                  !.wm = [NoWarm EXCEPT
                            !.phase = "running",
                            !.cb = [w \in {weekNumbers[i] : i \in 1..Len(weekNumbers)}
                                       |-> NoCb]]]
    IN  WarmSettle(WarmCbAll(P0, weekNumbers))

\* the weeks the server warms at its start
WarmWeeks == [i \in 1..MaxWarm |-> i - 1]

\* app.listen's callback: the server accepts requests; warmCache is called
\* and not awaited
Listen ==
    /\ ~listening
    /\ listening' = TRUE
    /\ WarmInstall(WarmStarted(WarmWeeks))
    /\ UNCHANGED <<now, l2, fsConfigured, tasks, budget, ret, batch, sub, lastSet, invDone>>

\* (variant: requests held back until warmCache has settled)
ServingAfterWarm(wm) == wm.phase = "done"

\* whether the request path goes ahead given the state of warmCache: its
\* promise is only given a then and a catch, nothing awaits it
Serving(wm) == TRUE

\* a request that reads a week through the cache, once the server listens
Request(k) ==
    /\ listening
    /\ Serving(warm)
    /\ GetStart(1, k)

\* Firestore serves a callback's docRef.get(): the snapshot, or a rejection
WarmRead(w) ==
    /\ warm.cb[w].pc = "get_await"
    /\ \/ warm' = [warm EXCEPT !.cb[w].pc = "get_resume", !.cb[w].doc = Snapshot(WeekKey(w))]
       \/ warm' = [warm EXCEPT !.cb[w].pc = "get_throw"]
    /\ UNCHANGED <<now, l1, l2, fsConfigured, stats, tasks, budget, ret, batch, sub,
                   lastSet, invDone, listening>>

\* getWeekFromCache resumes in a callback
WarmResume(w) ==
    LET o == LookupResume(l1, stats, WeekKey(w), warm.cb[w].pc = "get_throw", warm.cb[w].doc)
        P0 == [WPack EXCEPT !.l1 = o.l1, !.stats = o.stats, !.wm.cb[w].doc = <<>>]
    IN
    /\ warm.cb[w].pc \in {"get_resume", "get_throw"}
    /\ WarmInstall(WarmSettle(WarmGot(P0, w, o.res)))
    /\ lastSet' = <<>>
    /\ UNCHANGED <<now, l2, fsConfigured, tasks, budget, ret, batch, sub, invDone, listening>>

\* fetchWeekFn resolves: setWeekInCache runs up to its await
WarmFetchOk(w) ==
    LET k == WeekKey(w)
        P0 == [WPack EXCEPT !.l1 = StoreL1(l1, k, Produced(w)), !.wm.cb[w].sets = @ + 1]
    IN
    /\ warm.cb[w].pc = "fetch"
    /\ IF fsConfigured
       THEN WarmInstall([P0 EXCEPT !.wm.cb[w].pc = "set_await",
                                   !.wm.cb[w].doc = <<Stamped(k, Produced(w))>>])
       ELSE WarmInstall(WarmSettle(
                [P0 EXCEPT !.stats = AfterNoWrite(@),
                           !.wm.cb[w].pc = "done",
                           !.wm.cb[w].status = "warmed"]))
    /\ lastSet' = <<>>
    /\ invDone' = invDone \ {k}
    /\ tasks' = [u \in Callers |->
                   IF tasks[u].op = "inv" /\ tasks[u].key = k
                   THEN [tasks[u] EXCEPT !.clean = FALSE]
                   ELSE tasks[u]]
    /\ UNCHANGED <<now, l2, fsConfigured, budget, ret, batch, sub, listening>>

\* fetchWeekFn rejects: the callback's catch block
WarmFetchFail(w) ==
    /\ warm.cb[w].pc = "fetch"
    /\ WarmInstall(WarmSettle(WarmCatch(WPack, w)))
    /\ UNCHANGED <<now, l2, fsConfigured, tasks, budget, ret, batch, sub, lastSet,
                   invDone, listening>>

\* Firestore serves the callback's write, stored or rejected; setWeekInCache
\* returns and the callback returns { status: 'warmed' }
WarmWrite(w) ==
    /\ warm.cb[w].pc = "set_await"
    /\ \E ok \in BOOLEAN :
          /\ l2' = IF ok THEN L2Put(l2, WeekKey(w), warm.cb[w].doc[1]) ELSE l2
          /\ WarmInstall(WarmSettle(
                 [WPack EXCEPT !.stats = AfterWrite(@, ok),
                               !.wm.cb[w].pc = "done",
                               !.wm.cb[w].doc = <<>>,
                               !.wm.cb[w].status = "warmed"]))
    /\ UNCHANGED <<now, fsConfigured, tasks, budget, ret, batch, sub, lastSet,
                   invDone, listening>>

----------------------------------------------------------------------------
Keys == {WeekKey(w) : w \in Weeks} \cup {YearKey(y) : y \in Years}

Init ==
    /\ now = 0
    /\ l1 = <<>>
    /\ l2 = <<>>
    /\ fsConfigured \in BOOLEAN
    /\ stats = [l1Hits |-> 0, l2Hits |-> 0, misses |-> 0, writes |-> 0]
    /\ tasks = [t \in Callers |-> Idle]
    /\ budget = 0
    /\ ret = Return("none", WeekKey(0), <<>>, "none")
    /\ batch = NoBatch
    /\ sub = <<>>
    /\ lastSet = <<>>
    /\ invDone = {}
    /\ warm = NoWarm
    /\ listening = TRUE

\* One caller at a time, week and year keys, the clock.
Next ==
    \/ budget < MaxOps /\ \E k \in Keys : GetStart(1, k)
    \/ GetRead(1)
    \/ GetResume(1)
    \/ budget < MaxOps /\ \E k \in Keys, d \in Payloads : SetStart(1, k, d)
    \/ SetWrite(1)
    \/ budget < MaxOps /\ \E w \in Weeks : InvStart(1, WeekKey(w))
    \/ InvDelete(1)
    \/ \E to \in Times : Tick(to)

Spec == Init /\ [][Next]_vars

\* Two concurrent callers on one week key.
RaceKeys == {WeekKey(0)}
RaceTimes == {0, Hour + 1}

NextRace ==
    \/ budget < MaxRaceOps /\ \E t \in Callers, k \in RaceKeys : GetStart(t, k)
    \/ \E t \in Callers : GetRead(t)
    \/ \E t \in Callers : GetResume(t)
    \/ budget < MaxRaceOps /\ \E t \in Callers, k \in RaceKeys, d \in Payloads : SetStart(t, k, d)
    \/ \E t \in Callers : SetWrite(t)
    \/ budget < MaxRaceOps /\ \E t \in Callers, k \in RaceKeys : InvStart(t, k)
    \/ \E t \in Callers : InvDelete(t)
    \/ \E to \in RaceTimes : Tick(to)

SpecRace == Init /\ [][NextRace]_vars

\* setWeekInCache for weeks 0..MaxWeek, one call at a time: the ttl policy.
NextTTL ==
    \/ budget < MaxTTLOps /\ \E w \in 0..MaxWeek : SetStart(1, WeekKey(w), 1)
    \/ SetWrite(1)
    \/ \E to \in RaceTimes : Tick(to)

SpecTTL == Init /\ [][NextTTL]_vars

\* One generateWeeks call over a window of the weeks 0..MaxCount-1, beside a
\* caller that sets and invalidates those weeks, and the clock.
NextBatch ==
    \/ \E count \in 1..MaxCount, offset \in Offsets :
          offset + count <= MaxCount /\ BatchStart(count, offset)
    \/ \E w \in DOMAIN sub : SubRead(w)
    \/ \E w \in DOMAIN sub : SubResume(w)
    \/ \E w \in DOMAIN sub : ProduceOk(w)
    \/ \E w \in DOMAIN sub : ProduceFail(w)
    \/ \E w \in DOMAIN sub : SubWrite(w)
    \/ budget < MaxBatchOps /\ \E w \in 0..(MaxCount - 1) : SetStart(1, WeekKey(w), 1)
    \/ SetWrite(1)
    \/ budget < MaxBatchOps /\ \E w \in 0..(MaxCount - 1) : InvStart(1, WeekKey(w))
    \/ InvDelete(1)
    \/ \E to \in RaceTimes : Tick(to)

SpecBatch == Init /\ [][NextBatch]_vars

\* clearAllCache beside get, set, invalidate and getCacheStats, one call at a
\* time, over a durable tier that an earlier process may have filled.
ClearWeeks == {0, 1, 2}
ClearKeys == {WeekKey(w) : w \in ClearWeeks} \cup {YearKey(y) : y \in Years}

\* a document an earlier process stored at instant 0
Stored(k) == CachedData(1, setTTL(k, 0), 0)

InitClear ==
    /\ now = 0
    /\ l1 = <<>>
    /\ fsConfigured \in BOOLEAN
    /\ l2 \in IF fsConfigured
              THEN {[k \in S |-> Stored(k)] : S \in SUBSET ClearKeys}
              ELSE {<<>>}
    /\ stats = [l1Hits |-> 0, l2Hits |-> 0, misses |-> 0, writes |-> 0]
    /\ tasks = [t \in Callers |-> Idle]
    /\ budget = 0
    /\ ret = Return("none", WeekKey(0), <<>>, "none")
    /\ batch = NoBatch
    /\ sub = <<>>
    /\ lastSet = <<>>
    /\ invDone = {}
    /\ warm = NoWarm
    /\ listening = TRUE

NextClear ==
    \/ budget < MaxClearOps /\ \E k \in ClearKeys : GetStart(1, k)
    \/ GetRead(1)
    \/ GetResume(1)
    \/ budget < MaxClearOps /\ \E k \in ClearKeys : SetStart(1, k, 2)
    \/ SetWrite(1)
    \/ budget < MaxClearOps /\ \E w \in ClearWeeks : InvStart(1, WeekKey(w))
    \/ InvDelete(1)
    \/ budget < MaxClearOps /\ ClearStart(1)
    \/ ClearRead(1)
    \/ ClearCommit(1)
    \/ budget < MaxClearOps /\ GetStats
    \/ \E to \in RaceTimes : Tick(to)

SpecClear == InitClear /\ [][NextClear]_vars

\* The server from its start: app.listen, the warm-up it launches, and the
\* requests served beside it, over a durable tier that an earlier process may
\* have filled at instant 0; the server starts then or after the first ttl.
BootKeys == {WeekKey(WarmWeeks[i]) : i \in 1..Len(WarmWeeks)}

InitBoot ==
    /\ now \in RaceTimes
    /\ l1 = <<>>
    /\ fsConfigured \in BOOLEAN
    /\ l2 \in IF fsConfigured
              THEN {[k \in S |-> Stored(k)] : S \in SUBSET BootKeys}
              ELSE {<<>>}
    /\ stats = [l1Hits |-> 0, l2Hits |-> 0, misses |-> 0, writes |-> 0]
    /\ tasks = [t \in Callers |-> Idle]
    /\ budget = 0
    /\ ret = Return("none", WeekKey(0), <<>>, "none")
    /\ batch = NoBatch
    /\ sub = <<>>
    /\ lastSet = <<>>
    /\ invDone = {}
    /\ warm = NoWarm
    /\ listening = FALSE

NextBoot ==
    \/ Listen
    \/ \E w \in DOMAIN warm.cb : WarmRead(w)
    \/ \E w \in DOMAIN warm.cb : WarmResume(w)
    \/ \E w \in DOMAIN warm.cb : WarmFetchOk(w)
    \/ \E w \in DOMAIN warm.cb : WarmFetchFail(w)
    \/ \E w \in DOMAIN warm.cb : WarmWrite(w)
    \/ budget < MaxBootOps /\ \E k \in RaceKeys : Request(k)
    \/ GetRead(1)
    \/ GetResume(1)

SpecBoot == InitBoot /\ [][NextBoot]_vars

\* The hot tier at its capacity: L1 starts one entry short of full, weeks
\* 0..L1Max-2 written one millisecond apart, and is then read and written.
RECURSIVE Filled(_)
Filled(n) ==
    IF n = 0 THEN <<>>
    ELSE L1Set(Filled(n - 1), WeekKey(n - 1),
               CachedData(1, getTTL(n - 1), n), getTTL(n - 1), n)

LRUKeys == {WeekKey(0), WeekKey(1), WeekKey(L1Max - 1), WeekKey(L1Max), YearKey(BaseYear)}
LRUTimes == {L1Max, 2 * L1Max, 3 * L1Max}

InitLRU ==
    /\ now = L1Max
    /\ l1 = Filled(L1Max - 1)
    /\ fsConfigured \in BOOLEAN
    /\ l2 = IF fsConfigured
            THEN [k \in {l1[i].key : i \in 1..Len(l1)} |-> L1Value(l1, k)]
            ELSE <<>>
    /\ stats = [l1Hits |-> 0, l2Hits |-> 0, misses |-> 0,
                writes |-> IF fsConfigured THEN Len(l1) ELSE 0]
    /\ tasks = [t \in Callers |-> Idle]
    /\ budget = 0
    /\ ret = Return("none", WeekKey(0), <<>>, "none")
    /\ batch = NoBatch
    /\ sub = <<>>
    /\ lastSet = <<>>
    /\ invDone = {}
    /\ warm = NoWarm
    /\ listening = TRUE

NextLRU ==
    \/ budget < MaxLRUOps /\ \E k \in LRUKeys : GetStart(1, k)
    \/ GetRead(1)
    \/ GetResume(1)
    \/ budget < MaxLRUOps /\ \E k \in LRUKeys : SetStart(1, k, 2)
    \/ SetWrite(1)
    \/ \E to \in LRUTimes : Tick(to)

SpecLRU == InitLRU /\ [][NextLRU]_vars

\* Records that outlive the clock: a week beyond the last ttl tier, the
\* current year and a past year, read and written up to 20 days on, past
\* the longest ttl and the turn of the year.
AgeKeys == {WeekKey(53), YearKey(BaseYear), YearKey(BaseYear - 1)}
AgeTimes == {0, Hour + 1, Day + 1, 20 * Day}

InitAge ==
    /\ now = 0
    /\ l1 = <<>>
    /\ fsConfigured \in BOOLEAN
    /\ l2 \in IF fsConfigured
              THEN {[k \in S |-> Stored(k)] : S \in SUBSET AgeKeys}
              ELSE {<<>>}
    /\ stats = [l1Hits |-> 0, l2Hits |-> 0, misses |-> 0, writes |-> 0]
    /\ tasks = [t \in Callers |-> Idle]
    /\ budget = 0
    /\ ret = Return("none", WeekKey(0), <<>>, "none")
    /\ batch = NoBatch
    /\ sub = <<>>
    /\ lastSet = <<>>
    /\ invDone = {}
    /\ warm = NoWarm
    /\ listening = TRUE

NextAge ==
    \/ budget < MaxAgeOps /\ \E k \in AgeKeys : GetStart(1, k)
    \/ GetRead(1)
    \/ GetResume(1)
    \/ budget < MaxAgeOps /\ \E k \in AgeKeys : SetStart(1, k, 2)
    \/ SetWrite(1)
    \/ \E to \in AgeTimes : Tick(to)

SpecAge == InitAge /\ [][NextAge]_vars

\* Every operation that touches the counters: the server starts and warms,
\* and one caller gets, sets, invalidates, clears, reads and resets the
\* statistics.
InitStats ==
    /\ now = 0
    /\ l1 = <<>>
    /\ l2 = <<>>
    /\ fsConfigured \in BOOLEAN
    /\ stats = [l1Hits |-> 0, l2Hits |-> 0, misses |-> 0, writes |-> 0]
    /\ tasks = [t \in Callers |-> Idle]
    /\ budget = 0
    /\ ret = Return("none", WeekKey(0), <<>>, "none")
    /\ batch = NoBatch
    /\ sub = <<>>
    /\ lastSet = <<>>
    /\ invDone = {}
    /\ warm = NoWarm
    /\ listening = FALSE

NextStats ==
    \/ Listen
    \/ \E w \in DOMAIN warm.cb : WarmRead(w)
    \/ \E w \in DOMAIN warm.cb : WarmResume(w)
    \/ \E w \in DOMAIN warm.cb : WarmFetchOk(w)
    \/ \E w \in DOMAIN warm.cb : WarmFetchFail(w)
    \/ \E w \in DOMAIN warm.cb : WarmWrite(w)
    \/ listening /\ budget < MaxStatsOps /\ \E k \in RaceKeys : GetStart(1, k)
    \/ GetRead(1)
    \/ GetResume(1)
    \/ listening /\ budget < MaxStatsOps /\ \E k \in RaceKeys : SetStart(1, k, 1)
    \/ SetWrite(1)
    \/ listening /\ budget < MaxStatsOps /\ \E k \in RaceKeys : InvStart(1, k)
    \/ InvDelete(1)
    \/ listening /\ budget < MaxStatsOps /\ ClearStart(1)
    \/ ClearRead(1)
    \/ ClearCommit(1)
    \/ listening /\ budget < MaxStatsOps /\ GetStats
    \/ listening /\ budget < MaxStatsOps /\ ResetStats

SpecStats == InitStats /\ [][NextStats]_vars

\* Two requests for single weeks at once.
NextFlight ==
    \/ budget < MaxFlightOps /\ \E t \in Callers, w \in Weeks : GwdStart(t, w)
    \/ \E t \in Callers : GwdRead(t)
    \/ \E t \in Callers : GwdResume(t)
    \/ \E t \in Callers : GwdProduceOk(t)
    \/ \E t \in Callers : GwdProduceFail(t)
    \/ \E t \in Callers : GwdWrite(t)
    \/ \E to \in RaceTimes : Tick(to)

SpecFlight == Init /\ [][NextFlight]_vars

\* Lookups only, by two callers at once, of a week and a year that an earlier
\* process may have stored: every path of the two get functions.
LookupKeys == {WeekKey(0), YearKey(BaseYear)}

InitLookup ==
    /\ now = 0
    /\ l1 = <<>>
    /\ fsConfigured \in BOOLEAN
    /\ l2 \in IF fsConfigured
              THEN {[k \in S |-> Stored(k)] : S \in SUBSET LookupKeys}
              ELSE {<<>>}
    /\ stats = [l1Hits |-> 0, l2Hits |-> 0, misses |-> 0, writes |-> 0]
    /\ tasks = [t \in Callers |-> Idle]
    /\ budget = 0
    /\ ret = Return("none", WeekKey(0), <<>>, "none")
    /\ batch = NoBatch
    /\ sub = <<>>
    /\ lastSet = <<>>
    /\ invDone = {}
    /\ warm = NoWarm
    /\ listening = TRUE

NextLookup ==
    \/ budget < MaxLookupOps /\ \E t \in Callers, k \in LookupKeys : GetStart(t, k)
    \/ \E t \in Callers : GetRead(t)
    \/ \E t \in Callers : GetResume(t)
    \/ \E to \in RaceTimes : Tick(to)

SpecLookup == InitLookup /\ [][NextLookup]_vars

\* A process that has just started over the durable tier left by an earlier
\* one: the hot tier empty, the counters zero; two callers get records and
\* request single weeks.
RestartWeeks == {0, 53}
RestartKeys == {WeekKey(w) : w \in RestartWeeks} \cup {YearKey(BaseYear)}

InitRestart ==
    /\ now = 0
    /\ l1 = <<>>
    /\ fsConfigured \in BOOLEAN
    /\ l2 \in IF fsConfigured
              THEN {[k \in S |-> Stored(k)] : S \in SUBSET RestartKeys}
              ELSE {<<>>}
    /\ stats = [l1Hits |-> 0, l2Hits |-> 0, misses |-> 0, writes |-> 0]
    /\ tasks = [t \in Callers |-> Idle]
    /\ budget = 0
    /\ ret = Return("none", WeekKey(0), <<>>, "none")
    /\ batch = NoBatch
    /\ sub = <<>>
    /\ lastSet = <<>>
    /\ invDone = {}
    /\ warm = NoWarm
    /\ listening = TRUE

NextRestart ==
    \/ budget < MaxRestartOps /\ \E t \in Callers, k \in RestartKeys : GetStart(t, k)
    \/ \E t \in Callers : GetRead(t)
    \/ \E t \in Callers : GetResume(t)
    \/ budget < MaxRestartOps /\ \E t \in Callers, w \in RestartWeeks : GwdStart(t, w)
    \/ \E t \in Callers : GwdRead(t)
    \/ \E t \in Callers : GwdResume(t)
    \/ \E t \in Callers : GwdProduceOk(t)
    \/ \E t \in Callers : GwdProduceFail(t)
    \/ \E t \in Callers : GwdWrite(t)
    \/ \E to \in RaceTimes : Tick(to)

SpecRestart == InitRestart /\ [][NextRestart]_vars

\* Week and year records side by side in a full L1: the year's record was
\* written first (payload 2), then the weeks 0..L1Max-2 (payload 1); one
\* caller gets and sets the year and the week of the same number, and
\* invalidates weeks.
YearEntry ==
    [key |-> YearKey(BaseYear), value |-> CachedData(2, yearTTL(BaseYear, 0), 0),
     start |-> 0, ttl |-> yearTTL(BaseYear, 0)]

KindKeys == {WeekKey(0), WeekKey(BaseYear), YearKey(BaseYear)}

InitKinds ==
    /\ now = L1Max
    /\ l1 = <<YearEntry>> \o Filled(L1Max - 1)
    /\ fsConfigured \in BOOLEAN
    /\ l2 = IF fsConfigured
            THEN [k \in {l1[i].key : i \in 1..Len(l1)} |-> L1Value(l1, k)]
            ELSE <<>>
    /\ stats = [l1Hits |-> 0, l2Hits |-> 0, misses |-> 0,
                writes |-> IF fsConfigured THEN Len(l1) ELSE 0]
    /\ tasks = [t \in Callers |-> Idle]
    /\ budget = 0
    /\ ret = Return("none", WeekKey(0), <<>>, "none")
    /\ batch = NoBatch
    /\ sub = <<>>
    /\ lastSet = <<>>
    /\ invDone = {}
    /\ warm = NoWarm
    /\ listening = TRUE

NextKinds ==
    \/ budget < MaxKindOps /\ \E k \in KindKeys : GetStart(1, k)
    \/ GetRead(1)
    \/ GetResume(1)
    \/ budget < MaxKindOps /\ \E w \in {0, BaseYear} : SetStart(1, WeekKey(w), 1)
    \/ budget < MaxKindOps /\ SetStart(1, YearKey(BaseYear), 2)
    \/ SetWrite(1)
    \/ budget < MaxKindOps /\ \E w \in {0, BaseYear} : InvStart(1, WeekKey(w))
    \/ InvDelete(1)
    \/ \E to \in LRUTimes : Tick(to)

SpecKinds == InitKinds /\ [][NextKinds]_vars

\* The server from its start: its warm-up and, beside it, one generateWeeks
\* request for a week that is being warmed; every call to Firestore and to
\* the providers is answered in the end, one way or the other, and a
\* callback whose promise has settled is run.
LiveWeeks == {0}

NextLive ==
    \/ Listen
    \/ \E w \in DOMAIN warm.cb : WarmRead(w)
    \/ \E w \in DOMAIN warm.cb : WarmResume(w)
    \/ \E w \in DOMAIN warm.cb : WarmFetchOk(w)
    \/ \E w \in DOMAIN warm.cb : WarmFetchFail(w)
    \/ \E w \in DOMAIN warm.cb : WarmWrite(w)
    \/ listening /\ BatchStart(Cardinality(LiveWeeks), 0)
    \/ \E w \in DOMAIN sub : SubRead(w)
    \/ \E w \in DOMAIN sub : SubResume(w)
    \/ \E w \in DOMAIN sub : ProduceOk(w)
    \/ \E w \in DOMAIN sub : ProduceFail(w)
    \/ \E w \in DOMAIN sub : SubWrite(w)

\* a step in which Firestore or the providers answer a call of warmCache, or
\* one of its callbacks is resumed
WarmStep ==
    \E w \in DOMAIN warm.cb :
        \/ WarmRead(w)
        \/ WarmResume(w)
        \/ WarmFetchOk(w) \/ WarmFetchFail(w)
        \/ WarmWrite(w)

\* a step in which Firestore or the providers answer a call of generateWeeks
BatchAnswer ==
    \E w \in DOMAIN sub :
        \/ SubRead(w)
        \/ ProduceOk(w) \/ ProduceFail(w)
        \/ SubWrite(w)

\* a probe or a generateWeekData of the batch whose Firestore read has been
\* answered waits to be resumed, and the step that resumes it
SubSettled(w) == w \in DOMAIN sub /\ sub[w].pc \in {"get_resume", "get_throw"}
SubResumed(w) == SubSettled(w) /\ sub'[w].pc \notin {"get_resume", "get_throw"}

\* Every call to Firestore and to the providers is answered, and a callback
\* whose promise has settled is resumed.  (For SubResume the weak fairness
\* condition is written out: it is enabled exactly when SubSettled.)
Answered ==
    /\ WF_vars(WarmStep)
    /\ WF_vars(BatchAnswer)
    /\ \A w \in LiveWeeks : []<>(~SubSettled(w)) \/ []<><<SubResumed(w)>>_vars

SpecLive == InitStats /\ [][NextLive]_vars /\ Answered

----------------------------------------------------------------------------
(* Steps the properties speak of *)

\* a getWeekFromCache / getYearFromCache call returns in this step
GetReturns ==
    \/ \E t \in Callers : tasks[t].op = "get" /\ tasks[t].pc # "done" /\ tasks'[t].pc = "done"
    \/ budget' = budget + 1 /\ tasks' = tasks /\ ret'.op = "get"

\* a get of key k is issued in this step
GetIssued(k) ==
    /\ budget' = budget + 1
    /\ \/ tasks' = tasks /\ ret'.op = "get" /\ ret'.key = k
       \/ \E t \in Callers : /\ tasks[t].pc = "done"
                             /\ tasks'[t].pc = "get_await"
                             /\ tasks'[t].key = k

\* a setWeekInCache / setYearInCache call returns in this step
SetReturns ==
    \/ \E t \in Callers : tasks[t].pc = "set_await" /\ tasks'[t].pc = "done"
    \/ budget' = budget + 1 /\ tasks' = tasks /\ ret'.op = "set"

OnlyCounts(field) == stats' = [stats EXCEPT ![field] = @ + 1]

\* the age-tiered policy, in milliseconds; Null for no expiration
PolicyTTL(offset) ==
    IF offset = 0 THEN 3600000
    ELSE IF offset >= 1 /\ offset <= 4 THEN 86400000
    ELSE IF offset >= 5 /\ offset <= 52 THEN 604800000
    ELSE Null

----------------------------------------------------------------------------
(* C1: a get never returns a record whose expiresAt is set and earlier than
   the current time, whichever tier serves it. *)
C1_NeverReturnsExpired ==
    [][GetReturns =>
          \/ ret'.res = <<>>
          \/ ret'.res[1].expiresAt = Null
          \/ ret'.res[1].expiresAt >= now']_vars

(* C4: a get issued right after set(key, payload), before the ttl elapses and
   with nothing in between, returns in the same step with the payload written
   and counts one L1 hit and nothing else, whether the Firestore write is
   still in flight, has succeeded or has failed. *)
C4_ReadYourWrite ==
    [][\A k \in Keys :
          (/\ lastSet # <<>>
           /\ lastSet[1].key = k
           /\ (lastSet[1].value.expiresAt = Null \/ now <= lastSet[1].value.expiresAt)
           /\ GetIssued(k))
          => /\ tasks' = tasks
             /\ ret' = Return("get", k, <<lastSet[1].value>>, "l1hit")
             /\ ret'.res[1].data = lastSet[1].data
             /\ OnlyCounts("l1Hits")]_vars

C4_Witness ==
    /\ ret.op = "get" /\ ret.path = "l1hit"
    /\ \E t \in Callers : /\ tasks[t].pc = "set_await"
                          /\ tasks[t].key = ret.key
                          /\ ret.res = tasks[t].doc
    /\ stats.l1Hits = 1 /\ stats.writes = 0

(* C5 as stated: every set call counts one write when it returns, whatever
   the durable tier did. *)
C5_WriteCountedAlways ==
    [][SetReturns => stats'.writes = stats.writes + 1]_vars

(* C5 as amended: a set call counts one write when its Firestore write
   succeeded, and none when the write failed or the tier is disabled; no
   other counter moves. *)
C5_WriteCountedOnSuccess ==
    [][SetReturns =>
          /\ ret'.op = "set" /\ ret'.path \in {"written", "error", "disabled"}
          /\ ret'.path = "written" =>
                OnlyCounts("writes") /\ fsConfigured /\ ret'.key \in DOMAIN l2'
          /\ ret'.path = "error" => stats' = stats /\ fsConfigured /\ l2' = l2
          /\ ret'.path = "disabled" => stats' = stats /\ ~fsConfigured /\ l2' = l2]_vars

C5_Witness ==
    /\ ret.op = "set" /\ ret.path = "error"
    /\ stats.writes = 1
    /\ budget = 2

(* C6: a get that finds the key in Firestore, unexpired, counts one L2 hit,
   returns the document and leaves it in L1, fresh, with the same value. *)
C6_DurableHitPromotes ==
    [][\A t \in Callers :
          (/\ tasks[t].pc = "get_resume"
           /\ tasks[t].doc # <<>>
           /\ (tasks[t].doc[1].expiresAt = Null \/ now <= tasks[t].doc[1].expiresAt)
           /\ tasks'[t].pc = "done")
          => /\ OnlyCounts("l2Hits")
             /\ ret' = Return("get", tasks[t].key, tasks[t].doc, "l2hit")
             /\ L1Has(l1', tasks[t].key, now')
             /\ L1Value(l1', tasks[t].key) = tasks[t].doc[1]]_vars

C6_Witness ==
    /\ ret.op = "get" /\ ret.path = "l2hit"
    /\ stats.l2Hits = 1
    /\ L1Has(l1, ret.key, now)
    /\ ret.key \in DOMAIN l2 /\ l2[ret.key] = ret.res[1]

(* C7: every week entry of L1, promoted or written, carries the ttl of the
   age-tiered policy for its week offset. *)
C7_PromotedWithPolicyTTL ==
    \A i \in 1..Len(l1) :
        IsWeek(l1[i].key) => l1[i].ttl = PolicyTTL(l1[i].key[2])

(* C8: a get that finds the Firestore document expired, or no document,
   returns absent, counts one miss and nothing else, promotes nothing and
   leaves Firestore as it is. *)
C8_ExpiredOrAbsentIsMiss ==
    [][/\ \A t \in Callers :
             (/\ tasks[t].pc = "get_resume"
              /\ tasks'[t].pc = "done"
              /\ \/ tasks[t].doc = <<>>
                 \/ (tasks[t].doc[1].expiresAt # Null /\ now > tasks[t].doc[1].expiresAt))
             => /\ ret'.op = "get" /\ ret'.key = tasks[t].key /\ ret'.res = <<>>
                /\ OnlyCounts("misses")
                /\ l1' = l1
                /\ l2' = l2
       /\ \A k \in Keys :
             (GetIssued(k) /\ ~L1Has(l1, k, now) /\ ~fsConfigured)
             => /\ ret' = Return("get", k, <<>>, "disabled")
                /\ OnlyCounts("misses")
                /\ l1' = l1
                /\ l2' = l2]_vars

C8_Witness ==
    /\ ret.op = "get" /\ ret.path = "expired"
    /\ stats.misses = 1
    /\ ret.key \in DOMAIN l2
    /\ l2[ret.key].expiresAt < now
    /\ ~L1Has(l1, ret.key, now)

(* C9: a week record is stamped expiresAt = cachedAt + ttl with the ttl of
   the policy (1 h, 24 h, 7 d), or no expiresAt above week 52, in L1 and in
   Firestore, and its L1 entry carries that ttl. *)
C9_Stamp(w, rec) ==
    rec.expiresAt = IF PolicyTTL(w) = Null THEN Null ELSE rec.cachedAt + PolicyTTL(w)

C9_TTLPolicy ==
    /\ \A i \in 1..Len(l1) :
          /\ l1[i].ttl = PolicyTTL(l1[i].key[2])
          /\ C9_Stamp(l1[i].key[2], l1[i].value)
    /\ \A k \in DOMAIN l2 : C9_Stamp(k[2], l2[k])

C9_Witness ==
    /\ WeekKey(53) \in DOMAIN l2
    /\ l2[WeekKey(53)].cachedAt = Hour + 1
    /\ l2[WeekKey(53)].expiresAt = Null
    /\ L1Pos(l1, WeekKey(53)) # 0
    /\ l1[L1Pos(l1, WeekKey(53))].ttl = Null

(* C10: once an invalidate has returned, with no set of the key since it
   began, the key is in neither tier. *)
C10_InvalidatedIsAbsent ==
    \A k \in invDone : ~L1Has(l1, k, now) /\ ~L2Has(k)

(* C2: within a generateWeeks call at most one uncached week is being
   produced at any instant, and at most one of them is under way at all. *)
C2_ColdFetchesSequential ==
    LET cold == {batch.uncached[i] : i \in 1..Len(batch.uncached)}
    IN  /\ Cardinality({w \in cold : sub[w].pc = "produce"}) <= 1
        /\ Cardinality({w \in cold : sub[w].pc \notin {"none", "done"}}) <= 1

C2_Witness ==
    /\ batch.phase = "uncached" /\ Len(batch.uncached) >= 2 /\ batch.pos = 2
    /\ sub[batch.uncached[1]].pc = "done" /\ sub[batch.uncached[1]].produced
    /\ sub[batch.uncached[2]].pc = "produce"

(* C3: no week that the probe classified as cached is ever produced. *)
C3_CachedNeverProduced ==
    \A i \in 1..Len(batch.cached) :
        batch.phase # "probe" => ~sub[batch.cached[i]].produced

\* a clearAllCache call returns in this step
ClearReturns ==
    \/ \E t \in Callers : tasks[t].op = "clear" /\ tasks[t].pc # "done" /\ tasks'[t].pc = "done"
    \/ budget' = budget + 1 /\ tasks' = tasks /\ ret'.op = "clear"

(* C11: when clearAllCache returns, nothing having run beside it and no
   Firestore call having failed, no week key and no year key is left in L1 or
   in Firestore, so a get of any key is a miss. *)
C11_ClearedIsEmpty ==
    [][(ClearReturns /\ ret'.path \in {"cleared", "disabled"})
          => /\ l1' = <<>>
             /\ DOMAIN l2' = {}]_vars

(* C12: clearAllCache deletes in bounded batches: no commit carries more
   than MaxBatchDeletes deletes, however many documents the collection holds. *)
C12_DeletesInBoundedBatches ==
    \A t \in Callers :
        tasks[t].pc = "clear_commit" => Cardinality(tasks[t].doc[1]) <= MaxBatchDeletes

(* C13: when the Firestore write of a set fails, the call returns without
   raising and without another write attempt, Firestore and the counters are
   as they were, and L1 holds the stamped record: until its ttl elapses a get
   of the key is an L1 hit that returns it. *)
C13_FailedWriteKeepsHot ==
    [][\A t \in Callers :
          (/\ tasks[t].pc = "set_await"
           /\ now' = now
           /\ ret'.op = "set" /\ ret'.path = "error")
          => /\ tasks'[t] = Idle
             /\ ret' = Return("set", tasks[t].key, <<>>, "error")
             /\ l2' = l2 /\ stats' = stats /\ l1' = l1
             /\ ~isExpired(tasks[t].doc[1], now)
                   => /\ L1Has(l1', tasks[t].key, now')
                      /\ LookupSync(l1', stats', tasks[t].key).path = "l1hit"
                      /\ LookupSync(l1', stats', tasks[t].key).res = tasks[t].doc]_vars

C13_Witness ==
    /\ ret.op = "get" /\ ret.path = "l1hit"
    /\ budget = 2
    /\ fsConfigured /\ ~L2Has(ret.key)
    /\ stats.writes = 0 /\ stats.l1Hits = 1
    /\ \A t \in Callers : tasks[t].pc = "done"

\* an invalidateWeek call returns in this step
InvReturns ==
    \/ \E t \in Callers : tasks[t].pc = "inv_await" /\ tasks'[t].pc = "done"
    \/ budget' = budget + 1 /\ tasks' = tasks /\ ret'.op = "inv"

\* how a call comes back when the durable tier is missing or failed
Degraded == {"disabled", "error"}

(* C14: with Firestore not configured, or a Firestore call failing, every
   operation returns normally and acts on L1 alone: a get is an L1 hit or
   absent with one miss counted, a set leaves its record in L1, invalidate and
   clearAll leave the key, or everything, out of L1; Firestore is untouched. *)
C14_DegradesToHotTier ==
    [][/\ ret'.path # "raised"
       /\ \A k \in ClearKeys :
             (GetIssued(k) /\ ~fsConfigured)
             => /\ tasks' = tasks /\ l2' = l2
                /\ IF L1Has(l1, k, now)
                   THEN /\ ret' = Return("get", k, <<L1Value(l1, k)>>, "l1hit")
                        /\ OnlyCounts("l1Hits")
                   ELSE /\ ret' = Return("get", k, <<>>, "disabled")
                        /\ OnlyCounts("misses")
                        /\ l1' = l1
       /\ \A t \in Callers :
             (tasks[t].pc = "get_throw" /\ tasks'[t].pc = "done")
             => /\ ret' = Return("get", tasks[t].key, <<>>, "error")
                /\ OnlyCounts("misses")
                /\ l1' = l1 /\ l2' = l2
       /\ (SetReturns /\ ret'.path \in Degraded)
             => /\ L1Pos(l1', ret'.key) # 0
                /\ L1Value(l1', ret'.key).data = 2
                /\ l2' = l2 /\ stats' = stats
       /\ (InvReturns /\ ret'.path \in Degraded)
             => /\ L1Pos(l1', ret'.key) = 0
                /\ l2' = l2 /\ stats' = stats
       /\ (ClearReturns /\ ret'.path \in Degraded)
             => /\ l1' = <<>>
                /\ l2' = l2 /\ stats' = stats]_vars

C14_Witness ==
    /\ ~fsConfigured
    /\ ret = Return("get", WeekKey(1), <<>>, "disabled")
    /\ stats.misses = 1 /\ stats.l1Hits = 0
    /\ Len(l1) = 1 /\ l1[1].key = WeekKey(0)

\* the callbacks of warmCache that ended with the given status
Ended(status) == {w \in DOMAIN warm.cb : warm.cb[w].status = status}

(* C15: in warmCache a week whose get returns a record is marked cached and
   fetchWeekFn is never called for it; a week whose get returns absent gets
   one fetchWeekFn call, and when that resolves one setWeekInCache of its
   result. *)
C15_WarmFetchesOnlyAbsent ==
    [][\A w \in DOMAIN warm'.cb :
          LET c == warm'.cb[w]
          IN  /\ c.status = "cached" => c.fetches = 0 /\ c.sets = 0
              /\ c.status = "warmed" => c.fetches = 1 /\ c.sets = 1
              /\ c.status = "error" => c.fetches = 1 /\ c.sets = 0
              /\ c.pc = "fetch" => c.fetches = 1 /\ c.sets = 0
              /\ (w \in DOMAIN warm.cb /\ warm.cb[w].pc = "get_resume" /\ c.pc # "get_resume")
                    => IF warm.cb[w].doc # <<>> /\ ~isExpired(warm.cb[w].doc[1], now)
                       THEN c.status = "cached" /\ c.pc = "done"
                       ELSE c.status = "none" /\ c.pc = "fetch"
              /\ (w \in DOMAIN warm.cb /\ warm.cb[w].pc = "fetch" /\ c.sets = 1)
                    => /\ L1Has(l1', WeekKey(w), now')
                       /\ L1Value(l1', WeekKey(w)) = Stamped(WeekKey(w), Produced(w))]_vars

C15_Witness ==
    /\ warm.phase = "done"
    /\ warm.cb[0].status = "cached" /\ warm.cb[0].fetches = 0
    /\ warm.cb[1].status = "warmed" /\ warm.cb[1].fetches = 1 /\ warm.cb[1].sets = 1

(* C16: when warmCache is over, its summary counts as failed the weeks that
   ended in an error and as successful the weeks found cached or warmed, and
   the counts add up to the number of weeks. *)
C16_SummaryCounts ==
    warm.phase = "done"
    => /\ warm.failed = Cardinality(Ended("error"))
       /\ warm.successful = Cardinality(Ended("cached")) + Cardinality(Ended("warmed"))
       /\ warm.successful + warm.failed = Cardinality(DOMAIN warm.cb)

(* C17: in warmCache a week ends in an error only through the failure of its
   own fetchWeekFn call; that step changes no other week's callback and
   neither tier, the call never rejects, and when it is over every week has
   ended: cached, warmed, or failed by itself. *)
C17_WarmFailuresIsolated ==
    [][/\ warm'.phase \in {"idle", "running", "done"}
       /\ \A w \in DOMAIN warm.cb :
             (warm.cb[w].status # "error" /\ warm'.cb[w].status = "error")
             => /\ warm.cb[w].pc = "fetch"
                /\ \A v \in DOMAIN warm.cb \ {w} : warm'.cb[v] = warm.cb[v]
                /\ l1' = l1 /\ l2' = l2 /\ stats' = stats
       /\ warm'.phase = "done"
             => \A w \in DOMAIN warm'.cb :
                   /\ warm'.cb[w].pc = "done"
                   /\ warm'.cb[w].status \in {"cached", "warmed", "error"}
       /\ (warm.phase = "running" /\ warm'.phase = "running")
             => \E w \in DOMAIN warm'.cb : warm'.cb[w].pc # "done"]_vars

C17_Witness ==
    /\ warm.phase = "done"
    /\ warm.cb[0].status = "error"
    /\ warm.cb[1].status = "warmed"
    /\ L1Has(l1, WeekKey(1), now)
    /\ WeekKey(1) \in DOMAIN l2 /\ l2[WeekKey(1)].data = Produced(1)

(* C18: warmCache runs only once the server listens; whatever the state of
   the warm-up, a request can be taken and each of its steps can go on; no
   failure of the warm-up escapes it. *)
C18_ServesBesideWarmUp ==
    /\ warm.phase # "idle" => listening
    /\ warm.phase \in {"idle", "running", "done"}
    /\ (listening /\ Free(1)) => \A k \in RaceKeys : ENABLED Request(k)
    /\ tasks[1].pc = "get_await" => ENABLED GetRead(1)
    /\ tasks[1].pc \in {"get_resume", "get_throw"} => ENABLED GetResume(1)

C18_Witness ==
    /\ listening
    /\ warm.phase = "running"
    /\ \E w \in DOMAIN warm.cb : warm.cb[w].status = "error"
    /\ \E w \in DOMAIN warm.cb : warm.cb[w].pc \in {"get_await", "fetch", "set_await"}
    /\ ret.op = "get" /\ budget = 1
    /\ tasks[1].pc = "done"

\* the week numbers of the records generateWeeks returns
Returned == {batch.weeks[i].weekNumber : i \in 1..Len(batch.weeks)}

(* C19: generateWeeks always comes to its return; by then every requested
   week has been attempted, the weeks whose fetch succeeded are all in the
   result and the weeks whose fetch failed are left out of it. *)
C19_FailedWeekDropped ==
    /\ batch.phase \in {"idle", "probe", "cached", "uncached", "done"}
    /\ batch.phase = "done"
          => \A i \in 1..Len(batch.window) :
                LET w == batch.window[i]
                IN  /\ sub[w].pc = "done"
                    /\ sub[w].res # <<>>
                          => \E j \in 1..Len(batch.weeks) : batch.weeks[j] = sub[w].res[1]
                    /\ sub[w].res = <<>> => w \notin Returned

C19_Witness ==
    /\ batch.phase = "done"
    /\ Len(batch.window) = 2
    /\ sub[batch.window[1]].res = <<>> /\ sub[batch.window[1]].produced
    /\ sub[batch.window[2]].res # <<>> /\ sub[batch.window[2]].produced
    /\ Returned = {batch.window[2]}

(* C20: the list generateWeeks returns is in strictly ascending week number,
   holds only weeks of the requested window offset..offset+count-1, each at
   most once, whatever the order in which probes and fetches completed. *)
C20_ResultSortedInWindow ==
    batch.phase = "done"
    => /\ \A i \in 1..Len(batch.weeks), j \in 1..Len(batch.weeks) :
             i < j => batch.weeks[i].weekNumber < batch.weeks[j].weekNumber
       /\ \A i \in 1..Len(batch.weeks) :
             /\ batch.weeks[i].weekNumber >= batch.window[1]
             /\ batch.weeks[i].weekNumber <= batch.window[1] + Len(batch.window) - 1
       /\ \A i \in 1..Len(batch.window) : batch.window[i] = batch.window[1] + i - 1

C20_Witness ==
    /\ batch.phase = "done"
    /\ batch.cached = <<1>> /\ batch.uncached = <<0>>
    /\ Len(batch.weeks) = 2
    /\ batch.weeks[1].weekNumber = 0 /\ batch.weeks[2].weekNumber = 1

\* key k enters L1 in this step
Inserted(k) == L1Pos(l1, k) = 0 /\ L1Pos(l1', k) # 0

(* C21: L1 never holds more than 10 entries, week and year keys together;
   the insertion of a new key into a full L1 leaves exactly 10. *)
C21_HotTierAtMostTen ==
    [][/\ Len(l1') <= 10
       /\ \A k \in LRUKeys :
             (Len(l1) = 10 /\ Inserted(k)) => Len(l1') = 10]_vars

C21_Witness ==
    /\ Len(l1) = 10
    /\ L1Pos(l1, WeekKey(L1Max - 1)) # 0
    /\ L1Pos(l1, WeekKey(L1Max)) # 0
    /\ L1Pos(l1, WeekKey(0)) = 0
    /\ budget = 2

(* C22: the entry that an insertion pushes out of a full L1 is the one
   accessed longest ago, a write, a promotion or an L1 hit counting as an
   access: no entry that stays was accessed before it. *)
C22_EvictsLeastRecentlyAccessed ==
    [][\A k \in LRUKeys :
          (Len(l1) = L1Max /\ Inserted(k))
          => \A i \in 1..Len(l1) :
                L1Pos(l1', l1[i].key) = 0
                => \A j \in 1..Len(l1) : l1[i].start <= l1[j].start]_vars

C22_Witness ==
    /\ budget = 3
    /\ stats.l1Hits = 1
    /\ Len(l1) = L1Max
    /\ L1Pos(l1, WeekKey(0)) # 0
    /\ L1Pos(l1, WeekKey(1)) = 0
    /\ L1Pos(l1, WeekKey(L1Max - 1)) # 0
    /\ L1Pos(l1, WeekKey(L1Max)) # 0

\* the entries of L1, in order, without those of key k
L1Others(c, k) == SelectSeq(c, LAMBDA e : e.key # k)

\* the documents of Firestore without that of key k
L2Others(s, k) == [x \in DOMAIN s \ {k} |-> s[x]]

\* an invalidateWeek call starts, or Firestore serves its delete, in this step
InvSteps(k) ==
    \/ /\ budget' = budget + 1
       /\ \/ tasks' = tasks /\ ret'.op = "inv" /\ ret'.key = k
          \/ \E t \in Callers : tasks[t].pc = "done" /\ tasks'[t].pc = "inv_await"
                                 /\ tasks'[t].key = k
    \/ \E t \in Callers : tasks[t].pc = "inv_await" /\ tasks[t].key = k
                           /\ tasks'[t].pc = "done"

(* C23: an invalidate returns normally and touches only its key: the
   counters and every other key's entry and document are as before; on a key
   that is in neither tier (never written, or invalidated already) it changes
   nothing at all. *)
C23_InvalidateAbsentIsNoOp ==
    [][\A k \in Keys :
          InvSteps(k)
          => /\ stats' = stats
             /\ L1Others(l1', k) = L1Others(l1, k)
             /\ L2Others(l2', k) = L2Others(l2, k)
             /\ ret'.path # "raised"
             /\ (L1Pos(l1, k) = 0 /\ ~L2Has(k)) => l1' = l1 /\ l2' = l2]_vars

C23_Witness ==
    /\ budget = 3
    /\ ret.op = "inv" /\ ret.path = "deleted" /\ ret.key = WeekKey(0)
    /\ invDone = {WeekKey(0)}
    /\ Len(l1) = 1 /\ l1[1].key = WeekKey(1)
    /\ DOMAIN l2 = {WeekKey(1)}
    /\ stats = [l1Hits |-> 0, l2Hits |-> 0, misses |-> 0, writes |-> 1]

(* C24: a week-0 record written at t is returned by a get up to t + 1 hour
   and by no get after t + 1 hour, whatever gets of the key came between. *)
C24_WeekZeroValidForOneHour ==
    [][(GetReturns /\ ret'.key = WeekKey(0))
          => /\ ret'.res # <<>> => now' <= ret'.res[1].cachedAt + Hour
             /\ (/\ lastSet # <<>>
                 /\ lastSet[1].key = WeekKey(0)
                 /\ now <= lastSet[1].value.cachedAt + Hour - 1)
                => ret'.res = <<lastSet[1].value>>]_vars

\* the records of key k that the cache holds, in either tier
Held(k) ==
    {l1[i].value : i \in {j \in 1..Len(l1) : l1[j].key = k}}
        \cup (IF L2Has(k) THEN {l2[k]} ELSE {})

(* C25: a record of week 53 or beyond carries no expiresAt and never
   expires: no get of it ends on the expired path, and while Firestore holds
   its document a get returns a record, from L1 or from Firestore, however
   much time has passed (a get whose Firestore read fails aside). *)
C25_OldWeekNeverExpires ==
    [][\A k \in AgeKeys :
          (IsWeek(k) /\ k[2] >= 53)
          => /\ \A r \in Held(k) : r.expiresAt = Null
             /\ (GetReturns /\ ret'.key = k)
                   => /\ ret'.path # "expired"
                      /\ (L2Has(k) /\ ret'.path # "error")
                            => /\ ret'.res # <<>>
                               /\ ret'.res[1].expiresAt = Null
                               /\ ret'.path \in {"l1hit", "l2hit"}]_vars

C25_Witness ==
    /\ now = 20 * Day
    /\ ret.op = "get" /\ ret.key = WeekKey(53) /\ ret.path = "l2hit"
    /\ ret.res[1].cachedAt = 0
    /\ budget = 2 /\ stats.l2Hits = 2

(* C26: a year record written in its own calendar year expires 24 hours
   after it was written; a record of a past year has no expiresAt. *)
C26_YearTTLPolicy ==
    \A k \in AgeKeys :
        ~IsWeek(k)
        => \A r \in Held(k) :
              /\ k[2] = CurrentYear(r.cachedAt) => r.expiresAt = r.cachedAt + 24 * Hour
              /\ k[2] < CurrentYear(r.cachedAt) => r.expiresAt = Null

C26_Witness ==
    /\ YearKey(BaseYear) \in DOMAIN l2
    /\ l2[YearKey(BaseYear)].cachedAt = Hour + 1
    /\ l2[YearKey(BaseYear)].expiresAt = Hour + 1 + Day
    /\ YearKey(BaseYear - 1) \in DOMAIN l2
    /\ l2[YearKey(BaseYear - 1)].cachedAt = Hour + 1
    /\ l2[YearKey(BaseYear - 1)].expiresAt = Null
    /\ stats.writes = 2

(* C27: getCacheStats returns the counters, their total, the hit rate and
   the size of L1 as they are, and changes nothing: not a counter, not a
   document, not an L1 entry, its position or its age. *)
C27_StatsIsPure ==
    [][(budget' = budget + 1 /\ tasks' = tasks /\ ret'.op = "stats")
          => /\ stats' = stats /\ l1' = l1 /\ l2' = l2
             /\ now' = now
             /\ ret'.res[1].l1Hits = stats.l1Hits /\ ret'.res[1].l2Hits = stats.l2Hits
             /\ ret'.res[1].misses = stats.misses /\ ret'.res[1].writes = stats.writes
             /\ ret'.res[1].total = stats.l1Hits + stats.l2Hits + stats.misses
             /\ ret'.res[1].l1Size = Len(l1)]_vars

C27_Witness ==
    /\ ret.op = "stats"
    /\ ret.res[1].l1Size = 1 /\ ret.res[1].writes = 1
    /\ Len(l1) = 1 /\ L1Stale(l1[1], now)
    /\ stats.writes = 1

(* C28: no counter ever decreases except in a resetCacheStats step, which
   sets all four to zero: get, set, invalidate, clearAll and warmCache only
   ever count up. *)
C28_CountersOnlyResetExplicitly ==
    [][\/ /\ stats'.l1Hits >= stats.l1Hits /\ stats'.l2Hits >= stats.l2Hits
          /\ stats'.misses >= stats.misses /\ stats'.writes >= stats.writes
       \/ /\ budget' = budget + 1 /\ tasks' = tasks /\ ret'.op = "reset"
          /\ stats' = [l1Hits |-> 0, l2Hits |-> 0, misses |-> 0, writes |-> 0]]_vars

C28_Witness ==
    /\ ret.op = "clear" /\ ret.path = "cleared"
    /\ warm.phase = "done"
    /\ stats.writes = 2 /\ stats.misses = 2
    /\ l1 = <<>> /\ l2 = <<>>

\* no call is in progress
Quiescent == \A t \in Callers : tasks[t].pc = "done"

(* C29: when no call is in progress, every key that is in L1 and in
   Firestore has the same record in both. *)
C29_TiersAgreeAtRest ==
    Quiescent
    => \A i \in 1..Len(l1) :
          L2Has(l1[i].key) => l1[i].value = l2[l1[i].key]

(* C30: the providers are called for a week only when a get of that week
   has just returned absent, and never for a week for which a call to them
   is already under way. *)
C30_NoRedundantProduce ==
    [][/\ \A t \in Callers :
             (tasks'[t].pc = "produce" /\ tasks[t].pc # "produce")
             => \/ tasks[t].pc \in {"gwd_resume", "gwd_throw"}
                \/ /\ tasks[t].pc = "done"
                   /\ ~fsConfigured
                   /\ ~L1Has(l1, tasks'[t].key, now)
       /\ \A t \in Callers, u \in Callers :
             (t # u /\ tasks'[t].pc = "produce" /\ tasks'[u].pc = "produce")
             => tasks'[t].key # tasks'[u].key]_vars

\* the three lookup counters together
Lookups(st) == st.l1Hits + st.l2Hits + st.misses

(* C31: a get counts exactly one of l1Hits, l2Hits and misses, once, in the
   step in which it returns and in no other; so when no call is in progress
   the three counters add up to the number of gets made since the counters
   were zero. *)
C31_OneCounterPerGet ==
    [][/\ GetReturns
          => \/ OnlyCounts("l1Hits")
             \/ OnlyCounts("l2Hits")
             \/ OnlyCounts("misses")
       /\ ~GetReturns => stats' = stats
       /\ Quiescent' => Lookups(stats') = budget']_vars

\* three gets have returned, one by each counter, one of them after the
\* Firestore read was rejected
C31_Witness ==
    /\ Quiescent
    /\ budget = 3
    /\ stats.l1Hits = 1 /\ stats.l2Hits = 1 /\ stats.misses = 1
    /\ ret.path = "error"

\* the get of caller t, direct or inside generateWeekData, resumes from its
\* Firestore read in this step
Resumes(t) ==
    /\ tasks[t].pc \in {"get_resume", "get_throw", "gwd_resume", "gwd_throw"}
    /\ tasks'[t] # tasks[t]

\* the stored document of k has not reached its expiresAt
Unexpired(k) == l2[k].expiresAt = Null \/ now <= l2[k].expiresAt

\* the get that resumes is the first to return since the start, and its key
\* has an unexpired document
FirstGetOfStored(t) ==
    /\ Resumes(t)
    /\ Lookups(stats) = 0
    /\ L2Has(tasks[t].key)
    /\ Unexpired(tasks[t].key)

\* the call ends there with the stored document, counted as an L2 hit
ServedFromL2(t) ==
    /\ tasks'[t].pc = "done"
    /\ ret'.key = tasks[t].key
    /\ ret'.res = <<l2[tasks[t].key]>>
    /\ ret'.path \in {"l2hit", "cached"}
    /\ OnlyCounts("l2Hits")
    /\ l2' = l2

(* C32 as stated: after a restart the first get of a key whose document is
   in Firestore and unexpired is an L2 hit that returns that document, and
   the providers are not called. *)
C32_ServedAfterRestart ==
    [][\A t \in Callers : FirstGetOfStored(t) => ServedFromL2(t)]_vars

(* C32 amended: the same, when the Firestore read succeeds. *)
C32_ServedWhenReadSucceeds ==
    [][\A t \in Callers :
          (FirstGetOfStored(t) /\ tasks[t].pc \in {"get_resume", "gwd_resume"})
          => ServedFromL2(t)]_vars

\* a request for week 53 was the first call of the new process and returned
\* the document the earlier process had stored
C32_Witness ==
    /\ ret.op = "gwd"
    /\ ret.key = WeekKey(53)
    /\ ret.res = <<Stored(WeekKey(53))>>
    /\ stats = [l1Hits |-> 0, l2Hits |-> 1, misses |-> 0, writes |-> 0]
    /\ now = Hour + 1

\* the step drops key k from a full L1
Evicted(k) ==
    /\ Len(l1) = L1Max
    /\ L1Pos(l1, k) # 0
    /\ L1Pos(l1', k) = 0

\* the get of caller t resumes for a key that L1 has dropped and whose
\* document is in Firestore, unexpired
GetOfEvicted(t) ==
    /\ Resumes(t)
    /\ L1Pos(l1, tasks[t].key) = 0
    /\ L2Has(tasks[t].key)
    /\ Unexpired(tasks[t].key)

\* it returns the document as an L2 hit and the key is back in L1
Repromoted(t) ==
    /\ ret' = Return("get", tasks[t].key, <<l2[tasks[t].key]>>, "l2hit")
    /\ L1Has(l1', tasks[t].key, now')
    /\ L1Value(l1', tasks[t].key) = l2[tasks[t].key]
    /\ l2' = l2

(* C33 as stated: the step in which a full L1 drops a key leaves Firestore
   as it is, and a later get of a dropped key whose document is unexpired is
   an L2 hit that puts it back in L1. *)
C33_EvictionSilent ==
    [][/\ \A k \in LRUKeys : Evicted(k) => l2' = l2
       /\ \A t \in Callers : GetOfEvicted(t) => Repromoted(t)]_vars

(* C33 amended: the same, the later get being an L2 hit when its Firestore
   read succeeds. *)
C33_EvictionSilentReadOk ==
    [][/\ \A k \in LRUKeys : Evicted(k) => l2' = l2
       /\ \A t \in Callers :
             (GetOfEvicted(t) /\ tasks[t].pc = "get_resume") => Repromoted(t)]_vars

\* week 0 was dropped from the full L1 and a get has brought it back from
\* Firestore, dropping week 1 in its turn
C33_Witness ==
    /\ ret.path = "l2hit"
    /\ ret.key = WeekKey(0)
    /\ L1Pos(l1, WeekKey(0)) = L1Max
    /\ L1Pos(l1, WeekKey(1)) = 0
    /\ L2Has(WeekKey(1))

\* a step of a get: issued, its Firestore read served, or returning
GetSteps ==
    \/ GetReturns
    \/ \E k \in DOMAIN l2 \cup ClearKeys : GetIssued(k)
    \/ \E t \in Callers : tasks[t].pc = "get_await" /\ tasks'[t].pc # "get_await"

\* the call of caller t that awaits at pc returns in this step
Finishes(t, pc) == tasks[t].pc = pc /\ tasks'[t].pc = "done"

(* C34: no step of a get changes Firestore; a document appears or changes
   only when a set's write for its key is served, and disappears only when
   an invalidate's delete for its key or a clear's commit is served; the
   passing of time removes nothing. *)
C34_GetNeverWritesDurable ==
    [][/\ GetSteps => l2' = l2
       /\ \A k \in DOMAIN l2' :
             (k \notin DOMAIN l2 \/ l2'[k] # l2[k])
             => \E t \in Callers : Finishes(t, "set_await") /\ tasks[t].key = k
       /\ \A k \in DOMAIN l2 \ DOMAIN l2' :
             \/ \E t \in Callers : Finishes(t, "inv_await") /\ tasks[t].key = k
             \/ \E t \in Callers : Finishes(t, "clear_commit")
       /\ now' # now => l2' = l2]_vars

\* a get found the document of its key expired and returned absent; the
\* document is still in Firestore
C34_Witness ==
    /\ ret.op = "get"
    /\ ret.path = "expired"
    /\ L2Has(ret.key)
    /\ ~Unexpired(ret.key)

\* a step of an operation on key k: it starts, resumes or returns
OpStepOn(k) ==
    \/ budget' = budget + 1 /\ tasks' = tasks /\ ret'.key = k
    \/ \E t \in Callers : tasks[t].pc = "done" /\ tasks'[t].pc # "done" /\ tasks'[t].key = k
    \/ \E t \in Callers : tasks[t].pc # "done" /\ tasks'[t] # tasks[t] /\ tasks[t].key = k

\* the step leaves what each tier holds for key j as it is
SameInL1(j) ==
    IF L1Pos(l1, j) = 0 THEN L1Pos(l1', j) = 0
    ELSE L1Pos(l1', j) # 0 /\ l1'[L1Pos(l1', j)] = l1[L1Pos(l1, j)]

SameInL2(j) ==
    /\ L2Has(j) <=> j \in DOMAIN l2'
    /\ L2Has(j) => l2'[j] = l2[j]

\* the payload the callers of this specification give each kind of record
KindData(k) == IF k[1] = "week" THEN 1 ELSE 2

\* after the step every record held or returned under a key is of the key's
\* kind
KindsKept ==
    /\ \A i \in 1..Len(l1') : l1'[i].value.data = KindData(l1'[i].key)
    /\ \A k \in DOMAIN l2' : l2'[k].data = KindData(k)
    /\ ret'.res # <<>> => ret'.res[1].data = KindData(ret'.key)

(* C35 as stated: a get, set or invalidate of a week never returns,
   overwrites or removes a year's record in either tier, and conversely, for
   the week and the year of the same number too. *)
C35_KindsNeverCollide ==
    [][/\ KindsKept
       /\ \A k \in KindKeys, j \in KindKeys :
             (OpStepOn(k) /\ k[1] # j[1]) => SameInL1(j) /\ SameInL2(j)]_vars

(* C35 amended: the same, except that inserting a key into a full L1 drops
   the least recently used entry, of whichever kind. *)
C35_KindsCollideOnlyByEviction ==
    [][/\ KindsKept
       /\ \A k \in KindKeys, j \in KindKeys :
             (OpStepOn(k) /\ k[1] # j[1])
             => /\ SameInL2(j)
                /\ SameInL1(j) \/ (Evicted(j) /\ L1Pos(l1, j) = 1)]_vars

\* the week and the year of the same number are both in both tiers, each
\* with its own record
C35_Witness ==
    /\ L1Has(l1, WeekKey(BaseYear), now) /\ L1Value(l1, WeekKey(BaseYear)).data = 1
    /\ L1Has(l1, YearKey(BaseYear), now) /\ L1Value(l1, YearKey(BaseYear)).data = 2
    /\ L2Has(WeekKey(BaseYear)) /\ l2[WeekKey(BaseYear)].data = 1
    /\ L2Has(YearKey(BaseYear)) /\ l2[YearKey(BaseYear)].data = 2

\* the L1 entry lives exactly as long as the record it holds: no ttl for a
\* record without expiresAt, otherwise stale from expiresAt on
LivesToExpiresAt(e) ==
    IF e.value.expiresAt = Null THEN e.ttl = Null
    ELSE e.ttl # Null /\ e.start + e.ttl = e.value.expiresAt

(* C36: a year record promoted from Firestore gets in L1 the lifetime its
   set fixed (its stored expiresAt), not one derived again from the year
   current at the lookup. *)
C36_YearLifetimeFromWrite ==
    [][\A t \in Callers :
          (/\ tasks[t].pc = "get_resume"
           /\ tasks[t].key[1] = "year"
           /\ tasks'[t].pc = "done"
           /\ ret'.path = "l2hit")
          => LivesToExpiresAt(l1'[L1Pos(l1', tasks[t].key)])]_vars

Elems(s) == {s[i] : i \in 1..Len(s)}

\* a step of checkCacheStatus: generateWeeks starts, or a probe resumes
ProbeStep ==
    \/ batch.phase = "idle" /\ batch' # batch
    \/ batch.phase = "probe" /\ (sub' # sub \/ batch' # batch)

\* after the step no week is in both lists or twice in one, the weeks still
\* to classify are those whose probe has not returned, and once the probe
\* is over every week of the window is in a list
Partitioned ==
    /\ Elems(batch'.cached) \cap Elems(batch'.uncached) = {}
    /\ Cardinality(Elems(batch'.cached)) = Len(batch'.cached)
    /\ Cardinality(Elems(batch'.uncached)) = Len(batch'.uncached)
    /\ Elems(batch'.cached) \cup Elems(batch'.uncached) \subseteq Elems(batch'.window)
    /\ batch'.phase = "probe"
       => Elems(batch'.window) \ (Elems(batch'.cached) \cup Elems(batch'.uncached))
          = {w \in DOMAIN sub' : sub'[w].pc # "done"}
    /\ batch'.phase \notin {"idle", "probe"}
       => Elems(batch'.cached) \cup Elems(batch'.uncached) = Elems(batch'.window)

\* the get of week w that the probe made has returned a record: from L1 at
\* the start, or from Firestore when the probe resumed
ProbeGotRecord(w) ==
    IF batch.phase = "idle"
    THEN L1Has(l1, WeekKey(w), now)
    ELSE /\ sub[w].pc = "get_resume"
         /\ sub[w].doc # <<>>
         /\ (sub[w].doc[1].expiresAt = Null \/ now <= sub[w].doc[1].expiresAt)

(* C37: the probe of generateWeeks puts every week of the window in exactly
   one of cached and uncached, in cached only a week whose get returned a
   record; while it runs the providers are not called, and no step of it
   writes to Firestore. *)
C37_ProbePartitions ==
    [][/\ Partitioned
       /\ \A w \in Elems(batch'.cached) \ Elems(batch.cached) :
             ProbeStep /\ ProbeGotRecord(w)
       /\ \A w \in Elems(batch'.uncached) \ Elems(batch.uncached) :
             ProbeStep /\ ~ProbeGotRecord(w)
       /\ batch'.phase = "probe"
          => \A w \in DOMAIN sub' :
                /\ sub'[w].pc \in {"get_await", "get_resume", "get_throw", "done"}
                /\ ~sub'[w].produced
       /\ ProbeStep => l2' = l2]_vars

\* the probe found week 0 cached and week 1 not, and the call has gone on
\* to produce week 1
C37_Witness ==
    /\ batch.window = <<0, 1>>
    /\ batch.cached = <<0>>
    /\ batch.uncached = <<1>>
    /\ batch.phase = "uncached"
    /\ fsConfigured

(* C38: with every Firestore call and every provider call answered in the
   end, a generateWeeks call that has started returns and a warmCache call
   that has started settles, whatever else runs beside them and whichever
   weeks fail. *)
C38_BatchAndWarmComplete ==
    /\ (batch.phase \in {"probe", "cached", "uncached"}) ~> (batch.phase = "done")
    /\ (warm.phase = "running") ~> (warm.phase = "done")

\* both calls have ended after failures: generateWeeks returned no week for
\* its window, and a warm-up callback ended in its catch block
C38_Witness ==
    /\ batch.phase = "done"
    /\ batch.window # <<>>
    /\ batch.weeks = <<>>
    /\ warm.phase = "done"
    /\ \E w \in DOMAIN warm.cb : warm.cb[w].status = "error"

====
